---- MODULE Spec2Model ----
(***************************************************************************)
(* Model of the request layer of cspark-ts-sdk: the request executor       *)
(* (_fetch / _download in src/src/http.ts), the credential provider       *)
(* (Authorization / OAuth) and the error classifier.                       *)
(*                                                                         *)
(* A "send" is one call of ApiResource.request -> _fetch, including the    *)
(* recursive resends _fetch makes on 401 (OAuth) and 429.  Each send is    *)
(* run by a caller p; the callers share one Config and so one cached       *)
(* OAuth access token.                                                     *)
(***************************************************************************)
EXTENDS Integers, Sequences, FiniteSets, TLC

\* ------------------------------------------------------------------ bounds
\* largest config.maxRetries explored (README default is 2)
MaxRetriesBound == 2
\* cap on the network calls one caller may make (keeps a runaway resend finite)
MaxCalls == 5

\* maxRetries of the client shared by concurrent calls
ConcMaxRetries == 1

\* longest locator string tried on Uri.decode besides the encodings, in pieces
MaxUriLen == 5

\* longest configured bearer token, in pieces
MaxTokenLen == 4

\* largest maxRetries given to a getStatus poll
MaxPollRetries == 2

\* largest retries given to getRetryTimeout
MaxBackoffRetries == 5

\* ------------------------------------------------------------- input sets
Callers == {"c1", "c2"}

\* response statuses a server may answer with (418 stands for "any other")
Statuses == {200, 302, 400, 401, 403, 404, 409, 418, 429, 500, 503}

\* x-retry-after header of a response: -1 = header absent, else seconds;
\* only a 429 response is modelled with the header (no other path reads it)
NoHeader == -1
RetryAfterValues(status) == IF status = 429 THEN {NoHeader, 2} ELSE {NoHeader}

\* Math.random() outcomes, in thousandths: 0 <= r < 1
Jitters == {0, 999}

Methods == {"GET", "POST"}

ContentTypes == {"application/json", "application/json-patch+json",
                 "application/x-www-form-urlencoded",
                 "application/octet-stream", "text/plain"}

\* options.multiparts: absent (<<"none">>) or a list of parts; a part is
\* "file" (has fileStream), "data" (has data) or "empty" (has neither)
NoMultiparts == <<"none">>
MultipartChoices == {NoMultiparts, <<"data">>, <<"data", "file">>,
                     <<"data", "empty">>, <<"empty", "file">>}

\* the body variants a resource method passes to request: contentType, file
\* and multiparts (contentType and file are not read when multiparts is set)
BodyChoices ==
  { [contentType |-> ct, file |-> FALSE, multiparts |-> NoMultiparts] :
      ct \in ContentTypes }
  \cup { [contentType |-> "application/octet-stream", file |-> TRUE,
          multiparts |-> NoMultiparts] }
  \cup { [contentType |-> "application/json", file |-> FALSE, multiparts |-> mp] :
          mp \in MultipartChoices \ {NoMultiparts} }

\* config.interceptors: registered interceptors, by name
InterceptorChoices == {<< >>, <<"i1", "i2">>}

\* ---------------------------------------------------------------- state
VARIABLES
  config,       \* the shared Config: credentials, maxRetries, interceptors
  accessToken,  \* OAuth.#accessToken: 0 = undefined, n > 0 = the n-th token
  issued,       \* tokens issued so far by the token endpoint
  active,       \* the callers that take part in this run
  pc,           \* pc[p]: where caller p's operation stands
  options,      \* options[p]: the HttpOptions of the current _fetch call
  requestInit,  \* requestInit[p]: what createRequestInit returned
  httpResponse, \* httpResponse[p]: the response envelope of the last attempt
  wait,         \* wait[p]: the retryTimeout of the pending 429 sleep (ms)
  result,       \* result[p]: what the operation returned or threw
  trace,        \* trace[p]: the calls and events of p's operation, in order
  poll,         \* the getStatus poll in progress, if any
  call,         \* the last call of a helper: its name, argument and result
  cancelled,    \* the AbortSignal given as cancellationToken has been aborted
  job           \* the ImpEx.export workflow in progress, if any

vars == <<config, accessToken, issued, active, pc, options, requestInit,
          httpResponse, wait, result, trace, poll, call, cancelled, job>>

\* ------------------------------------------------------------- helpers
RECURSIVE Pow2(_)
Pow2(n) == IF n <= 0 THEN 1 ELSE 2 * Pow2(n - 1)

CeilDiv(a, b) == (a + b - 1) \div b

RECURSIVE CountEv(_, _)
CountEv(s, ev) ==
  IF s = << >> THEN 0
  ELSE (IF Head(s).ev = ev THEN 1 ELSE 0) + CountEv(Tail(s), ev)

Event(ev, n) == [ev |-> ev, n |-> n]

NetCalls(p) == CountEv(trace[p], "nodeFetch")
RefreshCalls(p) == CountEv(trace[p], "refreshToken")
Sleeps(p) == CountEv(trace[p], "setTimeout")

\* ------------------------------------------------------ CredentialProvider
\* variant: the precedence reversed, oauth first
AuthTypeOAuthFirst(c) ==
  IF c.oauth THEN "oauth"
  ELSE IF c.token THEN "token"
  ELSE IF c.apiKey THEN "apiKey"
  ELSE "undefined"

\* Authorization.type: precedence apiKey > token > oauth
AuthType(c) ==
  IF c.apiKey THEN "apiKey"
  ELSE IF c.token THEN "token"
  ELSE IF c.oauth THEN "oauth"
  ELSE "undefined"

NoAuthHeader == [header |-> "none", cred |-> "none", token |-> 0]

\* variant: the bearer token tested before the API key
AsHeaderTokenFirst(c, tok) ==
  IF c.token THEN [header |-> "Authorization", cred |-> "token", token |-> 0]
  ELSE IF c.apiKey THEN [header |-> "x-synthetic-key", cred |-> "apiKey", token |-> 0]
  ELSE IF c.oauth THEN [header |-> "Authorization", cred |-> "oauth", token |-> tok]
  ELSE [header |-> "none", cred |-> "none", token |-> 0]

\* variant: the oauth header built without reading the cached token
AsHeaderNoToken(c, tok) ==
  IF c.apiKey THEN [header |-> "x-synthetic-key", cred |-> "apiKey", token |-> 0]
  ELSE IF c.token THEN [header |-> "Authorization", cred |-> "token", token |-> 0]
  ELSE IF c.oauth THEN [header |-> "Authorization", cred |-> "oauth", token |-> 0]
  ELSE [header |-> "none", cred |-> "none", token |-> 0]

\* Authorization.asHeader: the one header of the active mode; in oauth mode it
\* carries the access token cached at the moment the header is built
AsHeader(c, tok) ==
  IF c.apiKey THEN [header |-> "x-synthetic-key", cred |-> "apiKey", token |-> 0]
  ELSE IF c.token THEN [header |-> "Authorization", cred |-> "token", token |-> 0]
  ELSE IF c.oauth THEN [header |-> "Authorization", cred |-> "oauth", token |-> tok]
  ELSE NoAuthHeader

\* ------------------------------------------------------------ header maps
\* the header names the SDK writes; a header map gives each name its value,
\* << >> when the name is absent
HeaderNames == {"User-Agent", "x-spark-ua", "x-request-id", "x-tenant-name",
                "x-synthetic-key", "Authorization", "Content-Type"}
Absent == << >>
NoHeaders == [n \in HeaderNames |-> Absent]

\* { ...a, ...b }: the entries of b replace those of a
Spread(a, b) == [n \in HeaderNames |-> IF b[n] # Absent THEN b[n] ELSE a[n]]

\* headers a caller supplies under every name the SDK writes
SuppliedHeaders == [n \in HeaderNames |-> <<"supplied">>]
SuppliedChoices == {NoHeaders, SuppliedHeaders}

\* ApiResource.defaultHeaders: config.extraHeaders, then the four SDK
\* headers; id is the value Utils.getUuid() returns for this call
DefaultHeaders(extra, id) ==
  Spread(extra,
         [n \in HeaderNames |->
            CASE n = "User-Agent"    -> <<"userAgentHeader">>
              [] n = "x-spark-ua"    -> <<"sdkUaHeader">>
              [] n = "x-request-id"  -> <<"uuid", id>>
              [] n = "x-tenant-name" -> <<"tenant">>
              [] OTHER               -> Absent])

\* variant: the headers of the caller spread after the default ones
RequestHeadersCallerLast(headers, extra, id) ==
  Spread(DefaultHeaders(extra, id), headers)

\* ApiResource.request: headers: { ...headers, ...this.defaultHeaders }
RequestHeaders(headers, extra, id) == Spread(headers, DefaultHeaders(extra, id))

\* createRequestInit: { ...headers, 'Content-Type': contentType, ...asHeader }
InitHeaders(headers, ct, auth) ==
  Spread(Spread(headers, [n \in HeaderNames |->
                            IF n = "Content-Type" THEN <<ct>> ELSE Absent]),
         [n \in HeaderNames |->
            IF n = auth.header THEN <<auth.cred, auth.token>> ELSE Absent])

\* --------------------------------------------------------- ErrorClassifier
\* SparkApiError.when(status, ...): the class of the error, by status
When(status) ==
  CASE status = 0   -> "InternetError"
    [] status = 400 -> "BadRequestError"
    [] status = 401 -> "UnauthorizedError"
    [] status = 403 -> "ForbiddenError"
    [] status = 404 -> "NotFoundError"
    [] status = 409 -> "ConflictError"
    [] status = 429 -> "RateLimitError"
    [] status = 500 -> "InternalServerError"
    [] status = 503 -> "ServiceUnavailableError"
    [] OTHER        -> "ApiUnknownError"

ApiErrorNames == {"InternetError", "BadRequestError", "UnauthorizedError",
                  "ForbiddenError", "NotFoundError", "ConflictError",
                  "RateLimitError", "InternalServerError",
                  "ServiceUnavailableError", "ApiUnknownError"}

\* --------------------------------------------------------- RequestExecutor
\* options.retries is optional: -1 stands for undefined
Undefined == -1

\* const { retries = 0 } = fetchOptions
RetriesOf(o) == IF o.retries = Undefined THEN 0 ELSE o.retries

\* variant: the exponent is retries, not retries - 1
GetRetryTimeoutNextPower(retries, baseInterval, r) ==
  Pow2(retries) * baseInterval * (500 + r)

\* getRetryTimeout(retries, baseInterval) in ms, for Math.random() = r/1000:
\* ceil(2^(retries-1) * baseInterval * 1000 * (r/1000 * (1.5 - 0.5) + 0.5))
GetRetryTimeout(retries, baseInterval, r) ==
  IF retries >= 1
  THEN Pow2(retries - 1) * baseInterval * (500 + r)
  ELSE CeilDiv(baseInterval * (500 + r), 2)

\* Interceptor.beforeRequest of the modelled hooks: "i1" tags the request
\* with a header; "i2" tags it and, on a resend, drops the byte stream the
\* first attempt has already consumed
BeforeRequest(i, o) ==
  IF i = "i2" /\ o.retries # Undefined
  THEN [o EXCEPT !.headers = Append(@, i), !.file = FALSE]
  ELSE [o EXCEPT !.headers = Append(@, i)]

\* variant: the hooks applied last-registered first
AfterRequestReversed(i, rsp) ==
  IF i = "i2" /\ rsp.status = 418
  THEN [rsp EXCEPT !.seen = <<i>> \o @, !.status = 200]
  ELSE [rsp EXCEPT !.seen = <<i>> \o @]

\* Interceptor.afterRequest of the modelled hooks: each marks the response;
\* "i2" also turns a 418 into a 200
AfterRequest(i, rsp) ==
  IF i = "i2" /\ rsp.status = 418
  THEN [rsp EXCEPT !.seen = Append(@, i), !.status = 200]
  ELSE [rsp EXCEPT !.seen = Append(@, i)]

\* options.config.interceptors.reduce((opts, i) => i.beforeRequest(opts), options)
RECURSIVE ReduceBefore(_, _)
ReduceBefore(is, o) ==
  IF is = << >> THEN o ELSE ReduceBefore(Tail(is), BeforeRequest(Head(is), o))

\* fetchOptions.config.interceptors.reduce((rsp, i) => i.afterRequest(rsp), httpResponse)
RECURSIVE ReduceAfter(_, _)
ReduceAfter(is, rsp) ==
  IF is = << >> THEN rsp ELSE ReduceAfter(Tail(is), AfterRequest(Head(is), rsp))

HasFilePart(parts) == \E k \in 1..Len(parts) : parts[k] = "file"

\* a byte stream given with the options has been read to its end by an
\* earlier attempt of the same send
Consumed(o) == o.retries # Undefined

\* the loop over options.multiparts, part by part: "ok", "throw" at the first
\* part with neither fileStream nor data, or "pending" at the first file part
\* whose stream has already ended: readStream waits for an 'end' event that
\* is not emitted a second time
RECURSIVE PartsOutcome(_, _)
PartsOutcome(parts, consumed) ==
  IF parts = << >> THEN "ok"
  ELSE IF Head(parts) = "file"
  THEN (IF consumed THEN "pending" ELSE PartsOutcome(Tail(parts), consumed))
  ELSE IF Head(parts) = "data" THEN PartsOutcome(Tail(parts), consumed)
  ELSE "throw"

NoRequestInit ==
  [method |-> "none", body |-> "none", contentType |-> "none",
   auth |-> NoAuthHeader, headers |-> << >>, md5 |-> FALSE, attempt |-> 0,
   signal |-> FALSE, headerMap |-> NoHeaders]

\* variant: application/octet-stream accepted without a byte stream
CreateRequestInitNoStreamCheck(o, c, tok, n) ==
  LET mk(ct, body, md5) ==
        [ok |-> TRUE, pending |-> FALSE,
         init |-> [method |-> o.method,
                   body |-> IF o.method = "GET" THEN "undefined" ELSE body,
                   contentType |-> ct,
                   auth |-> AsHeader(c, tok),
                   headers |-> o.headers,
                   md5 |-> md5,
                   attempt |-> n,
                   signal |-> o.cancellationToken,
                   headerMap |-> InitHeaders(o.headerMap, ct, AsHeader(c, tok))]]
      fail == [ok |-> FALSE, pending |-> FALSE, init |-> NoRequestInit]
      stuck == [ok |-> FALSE, pending |-> TRUE, init |-> NoRequestInit]
  IN IF o.multiparts # NoMultiparts
     THEN CASE PartsOutcome(o.multiparts, Consumed(o)) = "ok"
                 -> mk("multipart/form-data", "formData", HasFilePart(o.multiparts))
            [] PartsOutcome(o.multiparts, Consumed(o)) = "pending" -> stuck
            [] OTHER -> fail
     ELSE CASE o.contentType \in {"application/json", "application/json-patch+json"}
                 -> mk(o.contentType, "json", FALSE)
            [] o.contentType = "application/x-www-form-urlencoded"
                 -> mk(o.contentType, "urlParams", FALSE)
            [] o.contentType = "application/octet-stream"
                 -> mk(o.contentType,
                       IF Consumed(o) THEN "endedStream" ELSE "fileStream", FALSE)
            [] OTHER -> fail

\* createRequestInit(options): [ok |-> TRUE, init |-> RequestInit] or
\* [ok |-> FALSE, ...] when it throws SparkSdkError.  tok is the cached
\* access token, n the ordinal of the attempt the request is built for.
CreateRequestInit(o, c, tok, n) ==
  LET mk(ct, body, md5) ==
        [ok |-> TRUE, pending |-> FALSE,
         init |-> [method |-> o.method,
                   body |-> IF o.method = "GET" THEN "undefined" ELSE body,
                   contentType |-> ct,
                   auth |-> AsHeader(c, tok),
                   headers |-> o.headers,
                   md5 |-> md5,
                   attempt |-> n,
                   signal |-> o.cancellationToken,
                   headerMap |-> InitHeaders(o.headerMap, ct, AsHeader(c, tok))]]
      fail == [ok |-> FALSE, pending |-> FALSE, init |-> NoRequestInit]
      stuck == [ok |-> FALSE, pending |-> TRUE, init |-> NoRequestInit]
  IN IF o.multiparts # NoMultiparts
     THEN CASE PartsOutcome(o.multiparts, Consumed(o)) = "ok"
                 -> mk("multipart/form-data", "formData", HasFilePart(o.multiparts))
            [] PartsOutcome(o.multiparts, Consumed(o)) = "pending" -> stuck
            [] OTHER -> fail
     ELSE CASE o.contentType \in {"application/json", "application/json-patch+json"}
                 -> mk(o.contentType, "json", FALSE)
            [] o.contentType = "application/x-www-form-urlencoded"
                 -> mk(o.contentType, "urlParams", FALSE)
            [] o.contentType = "application/octet-stream"
                 -> IF o.file
                    THEN mk(o.contentType,
                            IF Consumed(o) THEN "endedStream" ELSE "fileStream", FALSE)
                    ELSE fail
            [] OTHER -> fail

\* variant: a redirect counted among the failures
IsErrorFrom300(status) == status >= 300

\* _fetch, "Should retry the request?": the statuses that are failures
IsError(status) == status >= 400

\* variant: the 401 path without the test of the auth mode
ShouldRefreshAnyAuth(status, authType, retries, maxRetries) ==
  status = 401 /\ retries < maxRetries

\* variant: one refresh more than maxRetries allows
ShouldRefreshOnceMore(status, authType, retries, maxRetries) ==
  status = 401 /\ authType = "oauth" /\ retries <= maxRetries

\* _fetch, "when unauthorized": refresh the token and resend
ShouldRefresh(status, authType, retries, maxRetries) ==
  status = 401 /\ authType = "oauth" /\ retries < maxRetries

\* variant: the 429 path without the retries < maxRetries test
ShouldWaitUnbounded(status, retries, maxRetries) ==
  status = 429

\* _fetch, "when rate limit exceeded": wait and resend
ShouldWait(status, retries, maxRetries) ==
  status = 429 /\ retries < maxRetries

\* variant: the header is not read, the wait is always the backoff delay
RetryTimeoutBackoffOnly(retryAfter, retries, r) ==
  GetRetryTimeout(retries, 1, r)

\* retryTimeout: the x-retry-after header in ms when the header is there,
\* else the backoff delay
RetryTimeout(retryAfter, retries, r) ==
  IF retryAfter # NoHeader THEN retryAfter * 1000 ELSE GetRetryTimeout(retries, 1, r)

SetMax(S) == CHOOSE x \in S : \A y \in S : y <= x

\* variant: one retry counter kept for all the calls of the client
ResendOptionsShared(o) ==
  [o EXCEPT !.retries = SetMax({ RetriesOf(options[q]) : q \in Callers }) + 1]

\* variant: the resend starts again from options no interceptor has touched
ResendOptionsOriginal(o) == [o EXCEPT !.retries = RetriesOf(o) + 1, !.headers = << >>]

\* the options of the recursive call: { ...fetchOptions, retries: retries + 1 }
ResendOptions(o) == [o EXCEPT !.retries = RetriesOf(o) + 1]

NoResponse == [status |-> 0, retryAfter |-> NoHeader, seen |-> << >>, attempt |-> 0]

NoOptions ==
  [method |-> "none", contentType |-> "none", file |-> FALSE,
   multiparts |-> NoMultiparts, retries |-> Undefined, headers |-> << >>,
   cancellationToken |-> FALSE, headerMap |-> NoHeaders]

NoResult ==
  [kind |-> "none", name |-> "none", status |-> 0,
   request |-> NoRequestInit, response |-> NoResponse]

\* a returned HttpResponse
Returned(rsp) ==
  [kind |-> "response", name |-> "HttpResponse", status |-> rsp.status,
   request |-> NoRequestInit, response |-> rsp]

\* a thrown error of class name; SparkApiError carries status and cause
Thrown(name, status, req, rsp) ==
  [kind |-> "error", name |-> name, status |-> status,
   request |-> req, response |-> rsp]

\* variant: the error thrown without the response in its cause
ThrowApiErrorNoResponse(status, req, rsp) ==
  [kind |-> "error", name |-> When(status), status |-> status,
   request |-> req, response |-> NoResponse]

\* throw SparkApiError.when(httpResponse.status, { message, cause: { request,
\* response } }) with the request and response of the attempt that failed
ThrowApiError(status, req, rsp) == Thrown(When(status), status, req, rsp)

\* config.hasInterceptors
HasInterceptors(c) == c.interceptors # << >>

Configs ==
  { [apiKey |-> a, token |-> t, oauth |-> o, maxRetries |-> m, interceptors |-> is] :
      a \in BOOLEAN, t \in BOOLEAN, o \in BOOLEAN,
      m \in 0..MaxRetriesBound, is \in InterceptorChoices }

\* Authorization.from rejects a configuration without any credential
ValidConfigs == { c \in Configs : c.apiKey \/ c.token \/ c.oauth }

\* ------------------------------------------------------------- JobPoller
\* the getStatus methods: Export and Import (resources/impex.ts), Compilation
\* (resources/service.ts) and LogDownload (resources/history.ts)
PollerKinds == {"export", "import", "compilation", "logDownload"}

StatusPollers == {"export", "import"}
ProgressPollers == {"compilation", "logDownload"}

\* what a status read answers: data.status, response_data.progress,
\* response_data.status and whether response_data.download_url is there
NoPayload == [status |-> "none", progress |-> -1, rdStatus |-> "none", downloadUrl |-> FALSE]

Payloads ==
  { [status |-> "pending",   progress |-> 0,   rdStatus |-> "Pending", downloadUrl |-> FALSE],
    [status |-> "pending",   progress |-> 50,  rdStatus |-> "Pending", downloadUrl |-> FALSE],
    [status |-> "pending",   progress |-> 100, rdStatus |-> "Pending", downloadUrl |-> FALSE],
    [status |-> "completed", progress |-> 100, rdStatus |-> "Success", downloadUrl |-> TRUE],
    [status |-> "closed",    progress |-> 0,   rdStatus |-> "Pending", downloadUrl |-> FALSE],
    [status |-> "failed",    progress |-> 0,   rdStatus |-> "Pending", downloadUrl |-> FALSE] }

\* the errors a status read may reject with (this.request throws)
ReadErrors == {"InternalServerError", "RateLimitError", "FetchError"}

NoOutcome == [kind |-> "none", name |-> "none", cause |-> NoPayload, response |-> NoPayload]

NoPoll ==
  [kind |-> "none", state |-> "idle", maxRetries |-> 0, retryInterval |-> 0,
   retries |-> 0, first |-> FALSE, reads |-> 0, sleeps |-> 0, wait |-> 0,
   obs |-> << >>, outcome |-> NoOutcome]

\* retryInterval defaults: 2 s, and 3 s for the log download status
DefaultRetryInterval(kind) == IF kind = "logDownload" THEN 3 ELSE 2

\* return response
PollReturn(q, d) ==
  [q EXCEPT !.state = "Completed",
            !.outcome = [kind |-> "response", name |-> "HttpResponse",
                         cause |-> NoPayload, response |-> d]]

\* throw SparkError.sdk({ message: '... timed out', cause })
PollTimeout(q, cause) ==
  [q EXCEPT !.state = "TimedOut",
            !.outcome = [kind |-> "error", name |-> "SparkSdkError",
                         cause |-> cause, response |-> NoPayload]]

\* await new Promise((resolve) => setTimeout(resolve, timeout))
PollSleep(q, timeout) ==
  [q EXCEPT !.state = "sleeping", !.sleeps = @ + 1, !.wait = timeout]

\* Export/Import.getStatus: response.data?.status is 'closed' or 'completed'
StatusComplete(d) == d.status \in {"closed", "completed"}

\* Compilation/LogDownload.getStatus: progress == 100
ProgressComplete(d) == d.progress = 100

\* Compilation/LogDownload.getStatus: the while condition of the do loop
LoopContinues(d, retries, maxRetries) == d.progress < 100 /\ retries < maxRetries

\* Compilation/LogDownload.getStatus: the test made once the loop is left
FinalSuccess(kind, d) ==
  IF kind = "compilation" THEN d.rdStatus = "Success" ELSE d.downloadUrl

\* getStatus up to its first await: let retries = 0, then the while test of
\* Export/Import, or the first read of Compilation/LogDownload
PollBegin(kind, maxRetries) ==
  LET q == [NoPoll EXCEPT !.kind = kind, !.maxRetries = maxRetries,
                          !.retryInterval = DefaultRetryInterval(kind),
                          !.retries = 0, !.first = TRUE, !.state = "request"]
  IN IF kind \in StatusPollers /\ ~(0 < maxRetries)
     THEN PollTimeout(q, NoPayload)
     ELSE q

\* getStatus from the response of a status read to its next await, return
\* or throw; r is what Math.random() gives if a backoff is computed
PollOnResponse(q, d, r) ==
  LET seen == [q EXCEPT !.reads = @ + 1, !.obs = Append(@, d), !.first = FALSE]
  IN IF q.kind \in StatusPollers
     THEN IF StatusComplete(d)
          THEN PollReturn(seen, d)
          ELSE PollSleep([seen EXCEPT !.retries = @ + 1],
                         GetRetryTimeout(q.retries + 1, q.retryInterval, r))
     ELSE IF q.first
          THEN IF ProgressComplete(d)
               THEN PollReturn(seen, d)
               ELSE PollSleep(seen, GetRetryTimeout(q.retries, q.retryInterval, r))
          ELSE IF LoopContinues(d, q.retries, q.maxRetries)
               THEN IF ProgressComplete(d)
                    THEN PollReturn(seen, d)
                    ELSE PollSleep(seen, GetRetryTimeout(q.retries, q.retryInterval, r))
               ELSE IF FinalSuccess(q.kind, d)
                    THEN PollReturn(seen, d)
                    ELSE PollTimeout(seen, d)

\* getStatus from the end of a sleep to its next await or throw
PollOnWake(q) ==
  IF q.kind \in StatusPollers
  THEN IF q.retries < q.maxRetries
       THEN [q EXCEPT !.state = "request"]
       ELSE PollTimeout(q, NoPayload)
  ELSE [q EXCEPT !.state = "request", !.retries = @ + 1]

\* variant: a status read that rejects is one more unsuccessful attempt
PollOnErrorCounts(q, name) ==
  PollSleep([q EXCEPT !.retries = @ + 1], q.retryInterval)

\* the status read rejects: getStatus has no handler, the error is its own
PollOnError(q, name) ==
  [q EXCEPT !.state = "Aborted",
            !.outcome = [kind |-> "error", name |-> name,
                         cause |-> NoPayload, response |-> NoPayload]]


\* no export workflow started: the stage export is at, whether initiate
\* returned a job id, the files the completed job lists, the index of the
\* file the download loop is at, the files downloaded, the sends made so far
NoJob ==
  [phase |-> "idle", id |-> FALSE, files |-> << >>, next |-> 0,
   downloads |-> << >>, sends |-> << >>, error |-> "none"]

\* no helper called yet
NoCall == [fn |-> "none", arg |-> << >>, ret |-> << >>]

InitWith(callers) ==
  /\ config \in ValidConfigs
  /\ accessToken \in (IF config.oauth THEN {0, 1} ELSE {0})
  /\ issued = accessToken
  /\ active = callers
  /\ pc = [p \in Callers |-> "idle"]
  /\ options = [p \in Callers |-> NoOptions]
  /\ requestInit = [p \in Callers |-> NoRequestInit]
  /\ httpResponse = [p \in Callers |-> NoResponse]
  /\ wait = [p \in Callers |-> 0]
  /\ result = [p \in Callers |-> NoResult]
  /\ trace = [p \in Callers |-> << >>]
  /\ poll = NoPoll
  /\ call = NoCall
  /\ cancelled = FALSE
  /\ job = NoJob

\* one caller, one operation
Init == InitWith({"c1"})

Log(p, evs) == trace' = [trace EXCEPT ![p] = @ \o evs]

\* the value Utils.getUuid() returns for the call of p: one value per call,
\* never returned for another
GetUuid(p) == p

\* a send starts: request merges the headers and calls _fetch with the
\* options, with or without a cancellationToken; supplied are the header
\* maps the caller and config.extraHeaders may hold
RequestWith(p, token, supplied) ==
  /\ p \in active /\ pc[p] = "idle"
  /\ \E m \in Methods, b \in BodyChoices, headers \in supplied, extra \in supplied :
       options' = [options EXCEPT ![p] =
                     [method |-> m, contentType |-> b.contentType, file |-> b.file,
                      multiparts |-> b.multiparts, retries |-> Undefined,
                      headers |-> << >>, cancellationToken |-> token,
                      headerMap |-> RequestHeaders(headers, extra, GetUuid(p))]]
  /\ pc' = [pc EXCEPT ![p] = "_fetch"]
  /\ Log(p, <<Event("request", 0)>>)
  /\ UNCHANGED <<job, cancelled, call, poll, config, accessToken, issued, active,
                 requestInit, httpResponse, wait, result>>

\* ApiResource.request: a resource method starts a send; no resource method
\* passes a cancellationToken or headers
Request(p) == RequestWith(p, FALSE, {NoHeaders})

\* _fetch, up to the network call: before-send interceptors, then
\* createRequestInit (which may throw), then nodeFetch is dispatched
Fetch(p) ==
  /\ pc[p] = "_fetch"
  /\ NetCalls(p) < MaxCalls
  /\ LET fetchOptions == IF HasInterceptors(config)
                         THEN ReduceBefore(config.interceptors, options[p])
                         ELSE options[p]
         built == CreateRequestInit(fetchOptions, config, accessToken, NetCalls(p) + 1)
     IN /\ options' = [options EXCEPT ![p] = fetchOptions]
        /\ IF built.pending
           THEN /\ requestInit' = requestInit
                /\ pc' = [pc EXCEPT ![p] = "reading"]
                /\ result' = result
                /\ Log(p, <<Event("_fetch", RetriesOf(fetchOptions)),
                            Event("readStream", 0)>>)
           ELSE IF built.ok
           THEN /\ requestInit' = [requestInit EXCEPT ![p] = built.init]
                /\ pc' = [pc EXCEPT ![p] = "inflight"]
                /\ result' = result
                /\ Log(p, <<Event("_fetch", RetriesOf(fetchOptions)),
                            Event("nodeFetch", built.init.auth.token)>>)
           ELSE /\ requestInit' = requestInit
                /\ pc' = [pc EXCEPT ![p] = "thrown"]
                /\ result' = [result EXCEPT ![p] =
                                Thrown("SparkSdkError", 0, NoRequestInit, NoResponse)]
                /\ Log(p, <<Event("_fetch", RetriesOf(fetchOptions)),
                            Event("throw", 0)>>)
  /\ UNCHANGED <<job, cancelled, call, poll, config, accessToken, issued, active, httpResponse, wait>>

\* _fetch, from the response on: build the envelope, after-receive
\* interceptors, then the retry decision
Respond(p) ==
  /\ pc[p] = "inflight"
  /\ ~(cancelled /\ requestInit[p].signal)
  /\ \E status \in Statuses, r \in Jitters : \E ra \in RetryAfterValues(status) :
       LET received == [status |-> status, retryAfter |-> ra, seen |-> << >>,
                        attempt |-> requestInit[p].attempt]
           rsp == IF HasInterceptors(config)
                  THEN ReduceAfter(config.interceptors, received)
                  ELSE received
           retries == RetriesOf(options[p])
       IN /\ httpResponse' = [httpResponse EXCEPT ![p] = rsp]
          /\ IF IsError(rsp.status)
             THEN IF ShouldRefresh(rsp.status, AuthType(config), retries, config.maxRetries)
                  THEN /\ pc' = [pc EXCEPT ![p] = "refreshing"]
                       /\ Log(p, <<Event("received", status), Event("response", rsp.status), Event("refreshToken", issued)>>)
                       /\ UNCHANGED <<wait, result>>
                  ELSE IF ShouldWait(rsp.status, retries, config.maxRetries)
                  THEN /\ pc' = [pc EXCEPT ![p] = "sleeping"]
                       /\ wait' = [wait EXCEPT ![p] = RetryTimeout(rsp.retryAfter, retries, r)]
                       /\ Log(p, <<Event("received", status), Event("response", rsp.status),
                                   Event("setTimeout", RetryTimeout(rsp.retryAfter, retries, r))>>)
                       /\ UNCHANGED result
                  ELSE /\ pc' = [pc EXCEPT ![p] = "thrown"]
                       /\ result' = [result EXCEPT ![p] =
                                       ThrowApiError(rsp.status, requestInit[p], rsp)]
                       /\ Log(p, <<Event("received", status), Event("response", rsp.status), Event("throw", rsp.status)>>)
                       /\ UNCHANGED wait
             ELSE /\ pc' = [pc EXCEPT ![p] = "returned"]
                  /\ result' = [result EXCEPT ![p] = Returned(rsp)]
                  /\ Log(p, <<Event("received", status), Event("response", rsp.status), Event("return", rsp.status)>>)
                  /\ UNCHANGED wait
  /\ UNCHANGED <<job, cancelled, call, poll, config, accessToken, issued, active, options, requestInit>>

\* nodeFetch rejects (no response: DNS failure, connection refused, abort):
\* _fetch has no handler around the call, the rejection is what it throws
Reject(p) ==
  /\ pc[p] = "inflight"
  /\ pc' = [pc EXCEPT ![p] = "thrown"]
  /\ result' = [result EXCEPT ![p] =
                  Thrown(IF cancelled /\ requestInit[p].signal
                         THEN "AbortError" ELSE "FetchError", 0, NoRequestInit, NoResponse)]
  /\ Log(p, <<Event("reject", 0), Event("throw", 0)>>)
  /\ UNCHANGED <<job, cancelled, call, poll, config, accessToken, issued, active, options, requestInit,
                 httpResponse, wait>>

\* variant: the token a refresh returns is cached only when none is cached
RefreshResolveIfEmpty(p) ==
  /\ pc[p] = "refreshing"
  /\ \E tok \in {issued + 1, 0} :
       /\ accessToken' = IF accessToken = 0 THEN tok ELSE accessToken
       /\ issued' = issued + 1
       /\ Log(p, <<Event("refreshed", tok)>>)
  /\ options' = [options EXCEPT ![p] = ResendOptions(@)]
  /\ pc' = [pc EXCEPT ![p] = "_fetch"]
  /\ UNCHANGED <<job, cancelled, call, poll, config, active, requestInit, httpResponse, wait, result>>

\* OAuth.retrieveToken resolves: the token the endpoint returned (a fresh
\* one, or none) replaces the cached one; then _fetch resends
RefreshResolve(p) ==
  /\ pc[p] = "refreshing"
  /\ \E tok \in {issued + 1, 0} :
       /\ accessToken' = tok
       /\ issued' = issued + 1
       /\ Log(p, <<Event("refreshed", tok)>>)
  /\ options' = [options EXCEPT ![p] = ResendOptions(@)]
  /\ pc' = [pc EXCEPT ![p] = "_fetch"]
  /\ UNCHANGED <<job, cancelled, call, poll, config, active, requestInit, httpResponse, wait, result>>

\* variant: a failed refresh also drops the cached token
RefreshRejectClearsToken(p) ==
  /\ pc[p] = "refreshing"
  /\ accessToken' = 0
  /\ pc' = [pc EXCEPT ![p] = "thrown"]
  /\ result' = [result EXCEPT ![p] = Thrown("RefreshError", 0, NoRequestInit, NoResponse)]
  /\ Log(p, <<Event("refreshFailed", 0), Event("throw", 0)>>)
  /\ UNCHANGED <<job, cancelled, call, poll, config, issued, active, options, requestInit, httpResponse, wait>>

\* variant: a failed refresh is passed over and the request is resent
RefreshRejectResends(p) ==
  /\ pc[p] = "refreshing"
  /\ options' = [options EXCEPT ![p] = ResendOptions(@)]
  /\ pc' = [pc EXCEPT ![p] = "_fetch"]
  /\ Log(p, <<Event("refreshFailed", 0)>>)
  /\ UNCHANGED <<job, cancelled, call, poll, config, accessToken, issued, active, requestInit,
                 httpResponse, wait, result>>

\* OAuth.retrieveToken rejects: _fetch throws the reason, nothing is resent
RefreshReject(p) ==
  /\ pc[p] = "refreshing"
  /\ pc' = [pc EXCEPT ![p] = "thrown"]
  /\ result' = [result EXCEPT ![p] = Thrown("RefreshError", 0, NoRequestInit, NoResponse)]
  /\ Log(p, <<Event("refreshFailed", 0), Event("throw", 0)>>)
  /\ UNCHANGED <<job, cancelled, call, poll, config, accessToken, issued, active, options, requestInit,
                 httpResponse, wait>>

\* the setTimeout of the 429 path fires; then _fetch resends
Timeout(p) ==
  /\ pc[p] = "sleeping"
  /\ options' = [options EXCEPT ![p] = ResendOptions(@)]
  /\ pc' = [pc EXCEPT ![p] = "_fetch"]
  /\ Log(p, <<Event("timeout", wait[p])>>)
  /\ UNCHANGED <<job, cancelled, call, poll, config, accessToken, issued, active, requestInit, httpResponse,
                 wait, result>>

\* variant: every status below 400 taken for a success
OkBelow400(status) == status < 400

\* response.ok of the fetch API: a 2xx status
Ok(status) == status >= 200 /\ status <= 299

\* _download: one nodeFetch, no body encoding; the caller may pass the
\* authorization header (resources/base.ts download(url, auth))
DownloadWith(p, token) ==
  /\ p \in active /\ pc[p] = "idle"
  /\ NetCalls(p) < MaxCalls
  /\ \E withAuth \in BOOLEAN :
       requestInit' = [requestInit EXCEPT ![p] =
                        [method |-> "GET", body |-> "null",
                         contentType |-> "application/json",
                         auth |-> IF withAuth THEN AsHeader(config, accessToken)
                                  ELSE NoAuthHeader,
                         headers |-> << >>, md5 |-> FALSE, attempt |-> 1,
                         signal |-> token,
                         headerMap |->
                           InitHeaders(NoHeaders, "application/json",
                                       IF withAuth THEN AsHeader(config, accessToken)
                                       ELSE NoAuthHeader)]]
  /\ pc' = [pc EXCEPT ![p] = "downloading"]
  /\ Log(p, <<Event("_download", 0), Event("nodeFetch", requestInit'[p].auth.token)>>)
  /\ UNCHANGED <<job, cancelled, call, poll, config, accessToken, issued, active, options,
                 httpResponse, wait, result>>

\* a resource method downloads a file; none passes a cancellationToken
Download(p) == DownloadWith(p, FALSE)

\* _download, .then: a response that is not ok is thrown to .catch, which
\* classifies it by status; an ok response is returned with its buffer
DownloadRespond(p) ==
  /\ pc[p] = "downloading"
  /\ ~(cancelled /\ requestInit[p].signal)
  /\ \E status \in Statuses : \E ra \in RetryAfterValues(status) :
       LET rsp == [status |-> status, retryAfter |-> ra, seen |-> << >>,
                   attempt |-> requestInit[p].attempt]
       IN /\ httpResponse' = [httpResponse EXCEPT ![p] = rsp]
          /\ IF ~Ok(status) \/ status >= 400
             THEN /\ pc' = [pc EXCEPT ![p] = "thrown"]
                  /\ result' = [result EXCEPT ![p] =
                                  Thrown(When(status), status, requestInit[p], rsp)]
                  /\ Log(p, <<Event("response", status), Event("throw", status)>>)
             ELSE /\ pc' = [pc EXCEPT ![p] = "returned"]
                  /\ result' = [result EXCEPT ![p] = Returned(rsp)]
                  /\ Log(p, <<Event("response", status), Event("return", status)>>)
  /\ UNCHANGED <<job, cancelled, call, poll, config, accessToken, issued, active, options, requestInit, wait>>

\* _download, nodeFetch rejects: .catch receives the FetchError, calls
\* arrayBuffer() on it, and that TypeError is what _download throws
DownloadReject(p) ==
  /\ pc[p] = "downloading"
  /\ pc' = [pc EXCEPT ![p] = "thrown"]
  /\ result' = [result EXCEPT ![p] = Thrown("TypeError", 0, NoRequestInit, NoResponse)]
  /\ Log(p, <<Event("reject", 0), Event("throw", 0)>>)
  /\ UNCHANGED <<job, cancelled, call, poll, config, accessToken, issued, active, options, requestInit,
                 httpResponse, wait>>

\* ------------------------------------------------------- specifications
Next ==
  \/ \E p \in Callers : Request(p)
  \/ \E p \in Callers : Fetch(p)
  \/ \E p \in Callers : Respond(p)
  \/ \E p \in Callers : Reject(p)
  \/ \E p \in Callers : RefreshResolve(p)
  \/ \E p \in Callers : RefreshReject(p)
  \/ \E p \in Callers : Timeout(p)
  \/ \E p \in Callers : Download(p)
  \/ \E p \in Callers : DownloadRespond(p)
  \/ \E p \in Callers : DownloadReject(p)

Spec == Init /\ [][Next]_vars

\* what a started operation does next: the code runs on, every network
\* call and refresh call settles, every timer fires
Progress(p) ==
  \/ Fetch(p) \/ Respond(p) \/ Reject(p)
  \/ RefreshResolve(p) \/ RefreshReject(p) \/ Timeout(p)
  \/ DownloadRespond(p) \/ DownloadReject(p)

LiveSpec == Init /\ [][Next]_vars /\ \A p \in Callers : WF_vars(Progress(p))

\* two resource calls in flight on one client in oauth mode
ConcInit ==
  /\ InitWith(Callers)
  /\ AuthType(config) = "oauth"
  /\ config.interceptors = << >>
  /\ config.maxRetries = ConcMaxRetries

\* Folder.getCategories: this.request(url.value), a GET without a body
GetCategories(p) ==
  /\ Request(p)
  /\ options'[p].method = "GET"
  /\ options'[p].contentType = "application/json"
  /\ ~options'[p].file
  /\ options'[p].multiparts = NoMultiparts

\* the answers concurrent calls get: success, expired token, rate limit, failure
ConcStatuses == {200, 401, 429, 500}

ConcNext ==
  \/ \E p \in Callers : GetCategories(p)
  \/ \E p \in Callers : Fetch(p)
  \/ \E p \in Callers : Respond(p) /\ httpResponse'[p].status \in ConcStatuses
  \/ \E p \in Callers : Reject(p)
  \/ \E p \in Callers : RefreshResolve(p)
  \/ \E p \in Callers : RefreshReject(p)
  \/ \E p \in Callers : Timeout(p)
  \/ \E p \in Callers : Download(p)
  \/ \E p \in Callers : DownloadRespond(p) /\ httpResponse'[p].status \in ConcStatuses
  \/ \E p \in Callers : DownloadReject(p)

ConcSpec == ConcInit /\ [][ConcNext]_vars

\* a caller asks for the status of a job: getStatus(..., { maxRetries })
PollStart ==
  /\ poll.state = "idle"
  /\ \E kind \in PollerKinds, m \in {Undefined} \cup 0..MaxPollRetries :
       poll' = PollBegin(kind, IF m = Undefined THEN config.maxRetries ELSE m)
  /\ UNCHANGED <<job, cancelled, call, config, accessToken, issued, active, pc, options, requestInit,
                 httpResponse, wait, result, trace>>

\* a status read (await this.request(url)) resolves with a response
PollReceive ==
  /\ poll.state = "request"
  /\ \E d \in Payloads, r \in Jitters : poll' = PollOnResponse(poll, d, r)
  /\ UNCHANGED <<job, cancelled, call, config, accessToken, issued, active, pc, options, requestInit,
                 httpResponse, wait, result, trace>>

\* a status read rejects
PollAbort ==
  /\ poll.state = "request"
  /\ \E e \in ReadErrors : poll' = PollOnError(poll, e)
  /\ UNCHANGED <<job, cancelled, call, config, accessToken, issued, active, pc, options, requestInit,
                 httpResponse, wait, result, trace>>

\* the timer of the poll's sleep fires
PollWake ==
  /\ poll.state = "sleeping"
  /\ poll' = PollOnWake(poll)
  /\ UNCHANGED <<job, cancelled, call, config, accessToken, issued, active, pc, options, requestInit,
                 httpResponse, wait, result, trace>>

\* a client with an API key and no interceptors, about to poll a job
PollInit ==
  /\ InitWith({})
  /\ config.apiKey /\ ~config.token /\ ~config.oauth
  /\ config.interceptors = << >>

PollNext == PollStart \/ PollReceive \/ PollAbort \/ PollWake

PollSpec == PollInit /\ [][PollNext]_vars

\* ------------------------------------------------------------- strings
\* a string is the sequence of its pieces; a piece is a run of characters
\* that the code only ever matches or copies as a whole
RECURSIVE TrimStart(_)
TrimStart(str) ==
  IF str # << >> /\ Head(str) = " " THEN TrimStart(Tail(str)) ELSE str

RECURSIVE TrimEnd(_)
TrimEnd(str) ==
  IF str # << >> /\ str[Len(str)] = " "
  THEN TrimEnd(SubSeq(str, 1, Len(str) - 1))
  ELSE str

\* String.prototype.trim
Trim(str) == TrimEnd(TrimStart(str))

\* the strings of 1..n pieces over an alphabet
StringsUpTo(alphabet, n) == UNION { [1..k -> alphabet] : k \in 1..n }

SetMin(S) == CHOOSE x \in S : \A y \in S : x <= y

\* str.replace(pattern, '') for a literal or non-global pattern: the first
\* occurrence is removed; Occurs(k) says the pattern matches len pieces at k
RemoveAt(str, k, len) == SubSeq(str, 1, k - 1) \o SubSeq(str, k + len, Len(str))

\* ------------------------------------------------------ token normalisation
\* the pieces a configured bearer token is written with
TokenAlphabet == {"Bearer", "bearer", " ", "t", "u"}

TokenInputs == StringsUpTo(TokenAlphabet, MaxTokenLen)

\* /bearer/i matches the piece
IsBearerWord(piece) == piece \in {"Bearer", "bearer"}

\* token.replace(/bearer/i, ''): the first match, wherever it is
ReplaceBearer(token) ==
  LET hits == { k \in 1..Len(token) : IsBearerWord(token[k]) }
  IN IF hits = {} THEN token ELSE RemoveAt(token, SetMin(hits), 1)

\* the constructor of Authorization: this.token = token?.replace(/bearer/i, '')?.trim()
NormalizeToken(token) == Trim(ReplaceBearer(token))

SdkErrorThrown == <<"SparkSdkError">>

\* Authorization.from({ token }).asHeader.Authorization; an empty token is no
\* credential and Authorization.from throws
TokenHeader(token) ==
  IF NormalizeToken(token) = << >> THEN SdkErrorThrown
  ELSE <<"Bearer", " ">> \o NormalizeToken(token)

\* a client is configured with a bearer token
AuthorizationFrom ==
  /\ call = NoCall
  /\ \E token \in TokenInputs :
       call' = [fn |-> "Authorization.from", arg |-> token, ret |-> TokenHeader(token)]
  /\ UNCHANGED <<job, cancelled, config, accessToken, issued, active, pc, options, requestInit,
                 httpResponse, wait, result, trace, poll>>

TokenInit ==
  /\ InitWith({})
  /\ AuthType(config) = "token" /\ ~config.oauth
  /\ config.interceptors = << >> /\ config.maxRetries = 0

TokenSpec == TokenInit /\ [][AuthorizationFrom]_vars

\* ------------------------------------------------------- LocatorResolver
\* UriParams; a field that is absent (or the empty string) is << >>
NoLocator ==
  [folder |-> << >>, service |-> << >>, version |-> << >>, serviceId |-> << >>,
   versionId |-> << >>, proxy |-> << >>, public |-> FALSE]

\* the values a caller gives the fields of UriParams
FolderNames == {<<"a">>, <<"version">>}
ServiceNames == {<<"b">>}
VersionNames == {<<"a">>}
Ids == {<<"a">>, <<"b">>}
ProxyNames == {<<"a", "/", "b">>, <<"/", "a">>}

Locators ==
  { [folder |-> f, service |-> sv, version |-> v, serviceId |-> sid,
     versionId |-> vid, proxy |-> px, public |-> pub] :
      f \in FolderNames \cup {<< >>}, sv \in ServiceNames \cup {<< >>},
      v \in VersionNames \cup {<< >>}, sid \in Ids \cup {<< >>},
      vid \in Ids \cup {<< >>}, px \in ProxyNames \cup {<< >>},
      pub \in BOOLEAN }

\* the pieces a locator string is written with
UriAlphabet == {"folders", "services", "service", "version", "a", "b", "/", "[", "]"}

\* Utils.sanitizeUri: repeated slashes become one, then the slash at the end
\* and the slash at the start are dropped
RECURSIVE CollapseSlashes(_)
CollapseSlashes(str) ==
  IF Len(str) < 2 THEN str
  ELSE IF str[1] = "/" /\ str[2] = "/" THEN CollapseSlashes(Tail(str))
  ELSE <<str[1]>> \o CollapseSlashes(Tail(str))

SanitizeUri(str) ==
  LET one == CollapseSlashes(str)
      noEnd == IF one # << >> /\ one[Len(one)] = "/"
               THEN SubSeq(one, 1, Len(one) - 1) ELSE one
  IN IF noEnd # << >> /\ noEnd[1] = "/" THEN Tail(noEnd) ELSE noEnd

\* str.replace(word + '/', ''): the first place where the word is followed
\* by a slash is cut out
RemoveWordSlash(str, word) ==
  LET hits == { k \in 1..(Len(str) - 1) : str[k] = word /\ str[k + 1] = "/" }
  IN IF hits = {} THEN str ELSE RemoveAt(str, SetMin(hits), 2)

\* uri.match(/^([^\/]+)\/([^[]+)(?:\[(.*?)\])?$/): [ok, folder, service, version]
NoMatch == [ok |-> FALSE, folder |-> << >>, service |-> << >>, version |-> << >>]

MatchLocator(str) ==
  LET slashes == { k \in 1..Len(str) : str[k] = "/" }
  IN IF slashes = {} \/ SetMin(slashes) = 1 THEN NoMatch
     ELSE LET s1 == SetMin(slashes)
              rest == SubSeq(str, s1 + 1, Len(str))
              opens == { k \in 1..Len(rest) : rest[k] = "[" }
          IN IF rest = << >> THEN NoMatch
             ELSE IF opens = {}
             THEN [ok |-> TRUE, folder |-> SubSeq(str, 1, s1 - 1),
                   service |-> rest, version |-> << >>]
             ELSE LET o == SetMin(opens)
                  IN IF o = 1 \/ rest[Len(rest)] # "]" THEN NoMatch
                     ELSE [ok |-> TRUE, folder |-> SubSeq(str, 1, s1 - 1),
                           service |-> SubSeq(rest, 1, o - 1),
                           version |-> SubSeq(rest, o + 1, Len(rest) - 1)]

\* Uri.decode(uri)
Decode(uri) ==
  LET str == RemoveWordSlash(RemoveWordSlash(SanitizeUri(uri), "folders"), "services")
      match == MatchLocator(str)
  IN IF ~match.ok THEN NoLocator
     ELSE IF match.folder = <<"version">>
     THEN [NoLocator EXCEPT !.versionId = match.service]
     ELSE IF match.folder = <<"service">>
     THEN [NoLocator EXCEPT !.serviceId = match.service]
     ELSE [NoLocator EXCEPT !.folder = match.folder, !.service = match.service,
                            !.version = match.version]

\* Uri.encode(uri, long)
Encode(uri, long) ==
  IF uri.versionId # << >> THEN <<"version", "/">> \o uri.versionId
  ELSE IF uri.serviceId # << >> THEN <<"service", "/">> \o uri.serviceId
  ELSE IF uri.folder # << >> /\ uri.service # << >>
  THEN (IF long THEN <<"folders", "/">> \o uri.folder \o <<"/", "services">>
        ELSE uri.folder)
       \o <<"/">> \o uri.service
       \o (IF uri.version # << >> THEN <<"[">> \o uri.version \o <<"]">> ELSE << >>)
  ELSE << >>

\* the strings given to Uri.decode: every short string, and every encoding
DecodeInputs ==
  StringsUpTo(UriAlphabet, MaxUriLen) \cup {<< >>}
    \cup { Encode(l, long) : l \in Locators, long \in BOOLEAN }

\* a resource method decodes the locator string it was given
UriDecode ==
  /\ call = NoCall
  /\ \E uri \in DecodeInputs :
       call' = [fn |-> "Uri.decode", arg |-> uri, ret |-> Decode(uri)]
  /\ UNCHANGED <<job, cancelled, config, accessToken, issued, active, pc, options, requestInit,
                 httpResponse, wait, result, trace, poll>>

\* a locator is encoded, in the long or the short form
UriEncode ==
  /\ call = NoCall
  /\ \E uri \in Locators, long \in BOOLEAN :
       call' = [fn |-> "Uri.encode", arg |-> [uri |-> uri, long |-> long],
                ret |-> Encode(uri, long)]
  /\ UNCHANGED <<job, cancelled, config, accessToken, issued, active, pc, options, requestInit,
                 httpResponse, wait, result, trace, poll>>

\* UriOptions: base (an absolute URL, or not one), version path and endpoint
Bases == {<<"https://host">>, <<"host">>}
Endpoints == {<< >>, <<"execute">>}
DefaultVersionPath == <<"api/v3">>

\* new URL(str) accepts the string: it starts with a scheme and a host
IsAbsoluteUrl(str) == str # << >> /\ str[1] = "https://host"

\* what Uri.from and Uri.partial give: the URL and the branch that wrote its
\* addressing segment, or the error thrown with what its cause holds
NoUri == [ok |-> FALSE, scheme |-> "none", url |-> << >>,
          error |-> [name |-> "none", cause |-> "none"]]

UriBuilt(scheme, url) == [NoUri EXCEPT !.ok = TRUE, !.scheme = scheme, !.url = url]
UriThrown(name, cause) == [NoUri EXCEPT !.error = [name |-> name, cause |-> cause]]

\* variant: the endpoint appended also when a proxy is set
FromEndpointAlways(given, uri, base, endpoint) ==
  IF ~given THEN UriThrown("TypeError", "none")
  ELSE LET pub == IF uri.public THEN <<"/", "public">> ELSE << >>
           scheme == IF uri.folder # << >> /\ uri.service # << >> THEN "folders"
                     ELSE IF uri.versionId # << >> THEN "version"
                     ELSE IF uri.proxy # << >> THEN "proxy"
                     ELSE "none"
           addr == CASE scheme = "folders" ->
                          <<"/", "folders", "/">> \o uri.folder
                            \o <<"/", "services", "/">> \o uri.service
                     [] scheme = "version" -> <<"/", "version", "/">> \o uri.versionId
                     [] scheme = "proxy" ->
                          <<"/", "proxy", "/">>
                            \o (IF Head(uri.proxy) = "/" THEN Tail(uri.proxy) ELSE uri.proxy)
                     [] OTHER -> << >>
           tail == IF endpoint # << >> THEN <<"/">> \o endpoint ELSE << >>
           url == base \o <<"/">> \o DefaultVersionPath \o pub \o addr \o tail
       IN IF IsAbsoluteUrl(url) THEN UriBuilt(scheme, url)
          ELSE UriThrown("SparkSdkError", "input")

\* Uri.from(uri, { base, endpoint }); given is FALSE when uri is undefined,
\* and then the destructuring of uri throws before the try block
From(given, uri, base, endpoint) ==
  IF ~given THEN UriThrown("TypeError", "none")
  ELSE LET pub == IF uri.public THEN <<"/", "public">> ELSE << >>
           scheme == IF uri.folder # << >> /\ uri.service # << >> THEN "folders"
                     ELSE IF uri.versionId # << >> THEN "version"
                     ELSE IF uri.proxy # << >> THEN "proxy"
                     ELSE "none"
           addr == CASE scheme = "folders" ->
                          <<"/", "folders", "/">> \o uri.folder
                            \o <<"/", "services", "/">> \o uri.service
                     [] scheme = "version" -> <<"/", "version", "/">> \o uri.versionId
                     [] scheme = "proxy" ->
                          <<"/", "proxy", "/">>
                            \o (IF Head(uri.proxy) = "/" THEN Tail(uri.proxy) ELSE uri.proxy)
                     [] OTHER -> << >>
           tail == IF endpoint # << >> /\ uri.proxy = << >>
                   THEN <<"/">> \o endpoint ELSE << >>
           url == base \o <<"/">> \o DefaultVersionPath \o pub \o addr \o tail
       IN IF IsAbsoluteUrl(url) THEN UriBuilt(scheme, url)
          ELSE UriThrown("SparkSdkError", "input")

\* Uri.partial(resource, { base, endpoint }): the catch block wraps the error
\* it caught, that error is the cause
Partial(resource, base, endpoint) ==
  LET url == base \o <<"/">> \o DefaultVersionPath \o <<"/">> \o SanitizeUri(resource)
               \o (IF endpoint # << >> THEN <<"/">> \o endpoint ELSE << >>)
  IN IF IsAbsoluteUrl(url) THEN UriBuilt("none", url)
     ELSE UriThrown("SparkSdkError", "TypeError")

\* the resources given to Uri.partial
Resources == {<<"nodegen">>, <<"nodegen", "/", "public">>}

\* a resource method builds its URL from a locator
UriFrom ==
  /\ call = NoCall
  /\ \E given \in BOOLEAN, uri \in Locators, base \in Bases, endpoint \in Endpoints :
       /\ ~given => uri = NoLocator
       /\ call' = [fn |-> "Uri.from",
                   arg |-> [given |-> given, uri |-> uri, base |-> base,
                            endpoint |-> endpoint],
                   ret |-> From(given, uri, base, endpoint)]
  /\ UNCHANGED <<job, cancelled, config, accessToken, issued, active, pc, options, requestInit,
                 httpResponse, wait, result, trace, poll>>

\* a resource method builds its URL from a partial resource
UriPartial ==
  /\ call = NoCall
  /\ \E resource \in Resources, base \in Bases, endpoint \in Endpoints :
       call' = [fn |-> "Uri.partial",
                arg |-> [resource |-> resource, base |-> base, endpoint |-> endpoint],
                ret |-> Partial(resource, base, endpoint)]
  /\ UNCHANGED <<job, cancelled, config, accessToken, issued, active, pc, options, requestInit,
                 httpResponse, wait, result, trace, poll>>

UriInit == PollInit /\ config.maxRetries = 0

UriNext == UriDecode \/ UriEncode \/ UriFrom \/ UriPartial

UriSpec == UriInit /\ [][UriNext]_vars

\* readStream(item.fileStream): the buffered bytes of the k-th part
FileBuffer(k) == <<"bytes", k>>

\* calculateMd5Hash(data): the hex digest, by the algorithm that computes it
CalculateMd5Hash(data) == [algorithm |-> "SHA-1", data |-> data]

\* headers['content-md5'] after the loop over the parts: every file part
\* assigns it, the last one stays
ContentMd5(parts) ==
  CalculateMd5Hash(FileBuffer(SetMax({ k \in 1..Len(parts) : parts[k] = "file" })))

\* the arguments of getRetryTimeout: retries from the first attempt (0) on,
\* the base interval in seconds, Math.random() in thousandths
BaseIntervals == {1, 2, 3}
BackoffJitters == {0, 1, 250, 500, 750, 999}

\* _fetch computes the delay before a resend
GetRetryTimeoutCall ==
  /\ call = NoCall
  /\ \E retries \in 0..MaxBackoffRetries, baseInterval \in BaseIntervals,
        r \in BackoffJitters :
       call' = [fn |-> "getRetryTimeout",
                arg |-> [retries |-> retries, baseInterval |-> baseInterval, r |-> r],
                ret |-> GetRetryTimeout(retries, baseInterval, r)]
  /\ UNCHANGED <<job, cancelled, config, accessToken, issued, active, pc, options, requestInit,
                 httpResponse, wait, result, trace, poll>>

BackoffSpec == TokenInit /\ [][GetRetryTimeoutCall]_vars

\* _fetch called with a cancellationToken in its options
FetchWithToken(p) == RequestWith(p, TRUE, {NoHeaders})

\* _download called with a cancellationToken in its options
DownloadWithToken(p) == DownloadWith(p, TRUE)

\* variant: aborting the signal rejects a pending sleep
CancelEndsSleep ==
  /\ ~cancelled
  /\ cancelled' = TRUE
  /\ trace' = [p \in Callers |-> IF p \in active THEN Append(trace[p], Event("abort", 0))
                                 ELSE trace[p]]
  /\ pc' = [p \in Callers |-> IF pc[p] = "sleeping" THEN "thrown" ELSE pc[p]]
  /\ UNCHANGED <<job, call, poll, config, accessToken, issued, active, options,
                 requestInit, httpResponse, wait, result>>

\* AbortController.abort(): the signal given as cancellationToken is aborted;
\* nothing of the operation runs in that step
Cancel ==
  /\ ~cancelled
  /\ cancelled' = TRUE
  /\ trace' = [p \in Callers |-> IF p \in active THEN Append(trace[p], Event("abort", 0))
                                 ELSE trace[p]]
  /\ UNCHANGED <<job, call, poll, config, accessToken, issued, active, pc, options,
                 requestInit, httpResponse, wait, result>>

\* one operation that was given a cancellation token, no interceptors
CancelInit == Init /\ config.interceptors = << >>

CancelNext ==
  \/ \E p \in Callers : FetchWithToken(p)
  \/ \E p \in Callers : Fetch(p)
  \/ \E p \in Callers : Respond(p)
  \/ \E p \in Callers : Reject(p)
  \/ \E p \in Callers : RefreshResolve(p)
  \/ \E p \in Callers : RefreshReject(p)
  \/ \E p \in Callers : Timeout(p)
  \/ \E p \in Callers : DownloadWithToken(p)
  \/ \E p \in Callers : DownloadRespond(p)
  \/ \E p \in Callers : DownloadReject(p)
  \/ Cancel

CancelSpec == CancelInit /\ [][CancelNext]_vars

\* a send whose caller, or whose configuration, supplies headers under the
\* names the SDK writes
RequestSupplying(p) ==
  /\ RequestWith(p, FALSE, SuppliedChoices)
  /\ options'[p].method = "GET"
  /\ options'[p].contentType = "application/json"
  /\ ~options'[p].file
  /\ options'[p].multiparts = NoMultiparts

\* two sends on one client, no interceptors
HeaderInit ==
  /\ InitWith(Callers)
  /\ config.interceptors = << >>
  /\ config.maxRetries = 1

HeaderNext ==
  \/ \E p \in Callers : RequestSupplying(p)
  \/ \E p \in Callers : Fetch(p)
  \/ \E p \in Callers : Respond(p) /\ httpResponse'[p].status \in ConcStatuses
  \/ \E p \in Callers : Reject(p)
  \/ \E p \in Callers : RefreshResolve(p)
  \/ \E p \in Callers : RefreshReject(p)
  \/ \E p \in Callers : Timeout(p)

HeaderSpec == HeaderInit /\ [][HeaderNext]_vars

TypeOK ==
  /\ config \in ValidConfigs
  /\ accessToken \in 0..issued
  /\ active \subseteq Callers
  /\ \A p \in Callers :
       pc[p] \in {"idle", "_fetch", "inflight", "reading", "refreshing",
                  "sleeping", "downloading", "returned", "thrown"}

\* ------------------------------------------------------ reading the trace
IsSend(p) == trace[p] # << >> /\ trace[p][1].ev = "request"

Last(sq) == sq[Len(sq)]

\* the positions of the events ev in p's trace
Positions(p, ev) == { k \in 1..Len(trace[p]) : trace[p][k].ev = ev }

\* the retries of the _fetch call that event k of p's trace belongs to
RetriesAt(p, k) ==
  trace[p][SetMax({ i \in Positions(p, "_fetch") : i < k })].n

\* the _fetch calls of p's send, in order
FetchEntries(p) == SelectSeq(trace[p], LAMBDA e : e.ev = "_fetch")

\* event k of p's trace is the last one
IsLastEvent(p, k) == k = Len(trace[p])

\* event k is followed by an event ev
FollowedBy(p, k, ev) == k < Len(trace[p]) /\ trace[p][k + 1].ev = ev

Done(p) == pc[p] \in {"returned", "thrown"}

\* ------------------------------------------------------------------ C1
\* C1: in every send the retry count starts at 0 and grows by exactly 1 with
\* each resend (the k-th _fetch call runs with retries = k - 1), it never
\* exceeds config.maxRetries, refreshes and 429 waits draw on the same
\* count, and the send makes at most maxRetries + 1 network calls.
C1_RetryCountBounded ==
  \A p \in Callers : IsSend(p) =>
    /\ \A k \in 1..Len(FetchEntries(p)) : FetchEntries(p)[k].n = k - 1
    /\ RetriesOf(options[p]) <= config.maxRetries
    /\ RefreshCalls(p) + Sleeps(p) <= config.maxRetries
    /\ RefreshCalls(p) + Sleeps(p) \in {RetriesOf(options[p]), RetriesOf(options[p]) + 1}
    /\ NetCalls(p) <= config.maxRetries + 1

\* a send that used its whole budget, on one refresh and one 429 wait
C1_Witness ==
  \E p \in Callers :
    /\ IsSend(p) /\ config.maxRetries = 2
    /\ RefreshCalls(p) = 1 /\ Sleeps(p) = 1 /\ NetCalls(p) = 3 /\ Done(p)

\* ------------------------------------------------------------------ C2
\* C2: every started send (and download) ends: it returns a response or
\* throws, whatever the server answers, provided calls, refreshes and
\* sleeps complete.
C2_SendTerminates ==
  \A p \in Callers : (pc[p] # "idle") ~> Done(p)

C6_WaitThenResendOn429 ==
  \A p \in Callers : IsSend(p) =>
    /\ pc[p] = "sleeping" =>
         /\ httpResponse[p].status = 429
         /\ RetriesOf(options[p]) < config.maxRetries
         /\ Last(trace[p]) = Event("setTimeout", wait[p])
         /\ IF httpResponse[p].retryAfter # NoHeader
            THEN wait[p] = httpResponse[p].retryAfter * 1000
            ELSE /\ 2 * wait[p] >= Pow2(RetriesOf(options[p])) * 500
                 /\ 2 * wait[p] <= Pow2(RetriesOf(options[p])) * 1500 + 1
    /\ \A k \in Positions(p, "response") : trace[p][k].n = 429 =>
         IF RetriesAt(p, k) < config.maxRetries
         THEN /\ FollowedBy(p, k, "setTimeout")
              /\ \A j \in Positions(p, "nodeFetch") : j > k =>
                   /\ FollowedBy(p, k + 1, "timeout")
                   /\ trace[p][k + 2].n = trace[p][k + 1].n
                   /\ FollowedBy(p, k + 2, "_fetch")
                   /\ trace[p][k + 3].n = RetriesAt(p, k) + 1
                   /\ j >= k + 4
         ELSE /\ FollowedBy(p, k, "throw") /\ IsLastEvent(p, k + 1)
              /\ result[p].name = "RateLimitError"
              /\ Sleeps(p) = RetriesAt(p, k) - RefreshCalls(p)

\* a resend dispatched after a sleep of the 2 s the header asked for
C6_Witness ==
  \E p \in Callers :
    /\ IsSend(p) /\ pc[p] = "inflight" /\ Sleeps(p) = 1 /\ NetCalls(p) = 2
    /\ wait[p] = 2000 /\ httpResponse[p].retryAfter = 2

\* ------------------------------------------------------------------ C7
\* C7: in a send, a response with status < 400 (a 3xx included) is returned
\* with its status, after every after-receive interceptor has been applied
\* to it once and in registration order, and ends the send: no refresh, no
\* sleep and no network call follows it.
C7_SuccessReturnedAsIs ==
  \A p \in Callers : IsSend(p) =>
    \A k \in Positions(p, "response") : trace[p][k].n < 400 =>
      /\ FollowedBy(p, k, "return") /\ IsLastEvent(p, k + 1)
      /\ pc[p] = "returned"
      /\ result[p].kind = "response"
      /\ result[p].status = trace[p][k].n
      /\ result[p].response = httpResponse[p]
      /\ result[p].response.seen = config.interceptors
      /\ result[p].response.attempt = NetCalls(p)

\* a redirect handed back to the caller after the interceptors
C7_Witness ==
  \E p \in Callers :
    /\ IsSend(p) /\ pc[p] = "returned" /\ result[p].status = 302
    /\ config.interceptors # << >> /\ config.maxRetries > 0

\* ------------------------------------------------------------------ C8
\* C8: whatever fails during the HTTP round trip of _fetch or _download, a
\* transport failure without response included, the caller gets a
\* SparkApiError, and an InternetError when there was no response.
C8_RoundTripFailuresAreApiErrors ==
  \A p \in Callers :
    (pc[p] = "thrown" /\ NetCalls(p) > 0 /\ result[p].name # "RefreshError"
       /\ result[p].name # "SparkSdkError") =>
      /\ result[p].name \in ApiErrorNames
      /\ Positions(p, "reject") # {} => result[p].name = "InternetError"

\* ------------------------------------------------------------------ C9
\* C9: the error a send throws for a final response of status s >= 400 has
\* the class the table gives for s and the status s, and its cause is the
\* request and the response of the last attempt; exhausted 429 retries give
\* RateLimitError and exhausted oauth 401 retries UnauthorizedError.
C9_ErrorClassifiedByFinalStatus ==
  \A p \in Callers : (IsSend(p) /\ pc[p] = "thrown" /\ result[p].name \in ApiErrorNames) =>
    LET s == httpResponse[p].status
    IN /\ s >= 400
       /\ result[p].status = s
       /\ s = 400 => result[p].name = "BadRequestError"
       /\ s = 401 => result[p].name = "UnauthorizedError"
       /\ s = 403 => result[p].name = "ForbiddenError"
       /\ s = 404 => result[p].name = "NotFoundError"
       /\ s = 409 => result[p].name = "ConflictError"
       /\ s = 429 => result[p].name = "RateLimitError"
       /\ s = 500 => result[p].name = "InternalServerError"
       /\ s = 503 => result[p].name = "ServiceUnavailableError"
       /\ s \notin {400, 401, 403, 404, 409, 429, 500, 503}
            => result[p].name = "ApiUnknownError"
       /\ result[p].request = requestInit[p]
       /\ result[p].request.attempt = NetCalls(p)
       /\ result[p].response = httpResponse[p]
       /\ result[p].response.attempt = NetCalls(p)
       /\ result[p].response.status = trace[p][Len(trace[p]) - 1].n

\* exhausted retries: the RateLimitError of the third attempt
C9_Witness ==
  \E p \in Callers :
    /\ IsSend(p) /\ pc[p] = "thrown" /\ config.maxRetries = 2
    /\ result[p].name = "RateLimitError" /\ NetCalls(p) = 3
    /\ result[p].request.attempt = 3 /\ result[p].response.attempt = 3

\* ------------------------------------------------------------------ C10
\* the validation createRequestInit is to make, stated on the options
InvalidOptions(o) ==
  IF o.multiparts # NoMultiparts
  THEN \E k \in 1..Len(o.multiparts) : o.multiparts[k] = "empty"
  ELSE \/ o.contentType = "application/octet-stream" /\ ~o.file
       \/ o.contentType \notin {"application/json", "application/json-patch+json",
                                "application/x-www-form-urlencoded",
                                "application/octet-stream"}

\* C10: a _fetch call whose request fails validation (octet-stream without
\* byte stream, multipart part with neither data nor fileStream, unsupported
\* content type) throws SparkSdkError, without status, before nodeFetch is
\* invoked: no network call on the first attempt, none beyond the earlier
\* attempts on a resend; a request that passes is never refused.
C10_ValidationBeforeNetwork ==
  \A p \in Callers : (IsSend(p) /\ pc[p] # "_fetch") =>
    /\ InvalidOptions(options[p]) =>
         /\ pc[p] = "thrown"
         /\ result[p].name = "SparkSdkError" /\ result[p].status = 0
         /\ Last(trace[p]).ev = "throw"
         /\ trace[p][Len(trace[p]) - 1].ev = "_fetch"
         /\ NetCalls(p) = RetriesOf(options[p])
    /\ result[p].name = "SparkSdkError" => InvalidOptions(options[p])

\* a resend refused by validation after the one call of the first attempt
C10_Witness ==
  \E p \in Callers :
    /\ IsSend(p) /\ pc[p] = "thrown" /\ result[p].name = "SparkSdkError"
    /\ NetCalls(p) = 1 /\ RetriesOf(options[p]) = 1

\* ------------------------------------------------------------------ C11
IsDownload(p) == trace[p] # << >> /\ trace[p][1].ev = "_download"

\* C11: a download makes exactly one network call and never refreshes,
\* sleeps or resends, whatever the response (401 under oauth and 429
\* included); a 2xx response is returned with its buffer, every other
\* response, a 3xx included, is thrown as the ApiError of its status.
C11_DownloadOneCallNoRetry ==
  \A p \in Callers : IsDownload(p) =>
    /\ NetCalls(p) = 1 /\ RefreshCalls(p) = 0 /\ Sleeps(p) = 0
    /\ pc[p] \in {"downloading", "returned", "thrown"}
    /\ \A k \in Positions(p, "response") :
         LET s == trace[p][k].n
         IN /\ IsLastEvent(p, k + 1)
            /\ IF s >= 200 /\ s <= 299
               THEN /\ pc[p] = "returned" /\ result[p].kind = "response"
                    /\ result[p].status = s
                    /\ result[p].response = httpResponse[p]
               ELSE /\ pc[p] = "thrown" /\ result[p].kind = "error"
                    /\ result[p].name \in ApiErrorNames
                    /\ result[p].status = s
                    /\ s = 302 => result[p].name = "ApiUnknownError"
                    /\ s = 401 => result[p].name = "UnauthorizedError"
                    /\ s = 429 => result[p].name = "RateLimitError"

\* a download answered 429 under oauth with retries to spare: thrown at once
C11_Witness ==
  \E p \in Callers :
    /\ IsDownload(p) /\ pc[p] = "thrown" /\ result[p].status = 429
    /\ AuthType(config) = "oauth" /\ config.maxRetries = MaxRetriesBound
    /\ NetCalls(p) = 1

\* ------------------------------------------------------------- pollers
\* either completion signal of the JobPoller contract
Complete(d) == StatusComplete(d) \/ ProgressComplete(d)

\* a poller run to its end on the status responses ds, every read resolving
RECURSIVE RunPoll(_, _)
RunPoll(q, ds) ==
  IF q.state = "sleeping" THEN RunPoll(PollOnWake(q), ds)
  ELSE IF q.state = "request" /\ ds # << >>
       THEN RunPoll(PollOnResponse(q, Head(ds), 0), Tail(ds))
       ELSE q

\* C12: in a progress-based poller (Compilation, LogDownload) a status read
\* made within the allowed attempts that reports progress = 100 ends the poll
\* Completed and returns that very response, whichever read it is and whatever
\* the other fields of the response are.
C12_ProgressHundredCompletes ==
  (/\ poll.kind \in ProgressPollers
   /\ poll.obs # << >>
   /\ Len(poll.obs) <= poll.maxRetries + 1
   /\ Last(poll.obs).progress = 100)
  => /\ poll.state = "Completed"
     /\ poll.outcome.kind = "response"
     /\ poll.outcome.response = Last(poll.obs)

\* C13: a poll that runs out of attempts fails with a timeout SparkSdkError
\* whose cause is the last status response observed; a TimedOut poll never
\* returns a response and a Completed poll never carries an error.
C13_TimeoutCarriesLastResponse ==
  /\ poll.state = "TimedOut" =>
       /\ poll.outcome.kind = "error"
       /\ poll.outcome.name = "SparkSdkError"
       /\ poll.obs # << >> => poll.outcome.cause = Last(poll.obs)
  /\ poll.state = "Completed" =>
       /\ poll.outcome.kind = "response"
       /\ Complete(poll.outcome.response)
  /\ (/\ poll.state \in {"Completed", "TimedOut"}
      /\ \A k \in 1..Len(poll.obs) : ~Complete(poll.obs[k]))
     => poll.state = "TimedOut"

\* C14: retries counts the status reads that did not report completion, the
\* poll stops when retries = maxRetries, so a poll makes at most maxRetries
\* status reads, and none after the first read that reports completion.
C14_AtMostMaxRetriesReads ==
  poll.kind # "none" =>
    /\ poll.reads <= poll.maxRetries
    /\ poll.retries <= poll.maxRetries
    /\ \A k \in 1..Len(poll.obs) : Complete(poll.obs[k]) => k = Len(poll.obs)

\* C15: the four pollers are one machine: given the same maxRetries and the
\* same status responses, every poller makes the same number of reads and
\* sleeps and ends in the same outcome as the one that ran, and that outcome
\* is Completed exactly when a response carried a completion signal.
C15_OnePollerMachine ==
  poll.state \in {"Completed", "TimedOut"} =>
    /\ poll.state = "Completed" <=> \E k \in 1..Len(poll.obs) : Complete(poll.obs[k])
    /\ \A kind \in PollerKinds :
         LET other == RunPoll(PollBegin(kind, poll.maxRetries), poll.obs)
         IN /\ other.state = poll.state
            /\ other.reads = poll.reads
            /\ other.sleeps = poll.sleeps

\* C16: a status response that reports "failed" ends the poll at once with a
\* job-result error that is not the timeout SparkSdkError: no sleep and no
\* further read follow it.
C16_FailedJobSurfaced ==
  \A k \in 1..Len(poll.obs) :
    poll.obs[k].status = "failed" =>
      /\ k = Len(poll.obs)
      /\ poll.state \notin {"sleeping", "request", "TimedOut", "Completed"}
      /\ poll.outcome.kind = "error"
      /\ poll.outcome.name # "SparkSdkError"

\* ------------------------------------------------------------------ C17
\* the refresh call of p resolves / a request of p is handed to nodeFetch
RefreshCompletes(p) == pc[p] = "refreshing" /\ pc'[p] = "_fetch"
Dispatches(p) == pc[p] = "_fetch" /\ pc'[p] = "inflight"

\* the values the completed refresh calls have returned
ReturnedTokens(tr) ==
  UNION { { tr[p][k].n : k \in { i \in 1..Len(tr[p]) : tr[p][i].ev = "refreshed" } } :
          p \in Callers }

\* no refresh in flight and at least one completed: the cache holds a value
\* one of them returned
Converged(pcs, tr, tok) ==
  ((\A p \in Callers : pcs[p] # "refreshing") /\ ReturnedTokens(tr) # {})
    => tok \in ReturnedTokens(tr)

LastStatus(p) == trace[p][SetMax(Positions(p, "response"))].n

\* C18: of concurrent sends on one config each keeps its own retry count (the
\* k-th _fetch call of a send runs with retries = k - 1 and the count equals
\* the send's own refreshes and waits), a send gives up on a 401 or 429 only
\* when its own count has reached maxRetries, it makes at most maxRetries + 1
\* network calls, and what its caller gets is the response or the error of
\* its own last request.
C18_SendsDoNotInterfere ==
  \A p \in Callers : IsSend(p) =>
    /\ \A k \in 1..Len(FetchEntries(p)) : FetchEntries(p)[k].n = k - 1
    /\ RefreshCalls(p) + Sleeps(p) \in {RetriesOf(options[p]), RetriesOf(options[p]) + 1}
    /\ RefreshCalls(p) + Sleeps(p) <= config.maxRetries
    /\ NetCalls(p) <= config.maxRetries + 1
    /\ \A k \in Positions(p, "response") :
         (trace[p][k].n \in {401, 429} /\ FollowedBy(p, k, "throw")) =>
           /\ RetriesAt(p, k) = config.maxRetries
           /\ RefreshCalls(p) + Sleeps(p) = config.maxRetries
    /\ (Done(p) /\ Positions(p, "response") # {}
          /\ IsLastEvent(p, SetMax(Positions(p, "response")) + 1)) =>
         /\ result[p].status = LastStatus(p)
         /\ result[p].response = httpResponse[p]
         /\ result[p].response.attempt = NetCalls(p)
         /\ pc[p] = "thrown" => result[p].request = requestInit[p]
         /\ pc[p] = "returned" <=> LastStatus(p) < 400

\* two sends in flight together, one waiting on a 429 while the other
\* refreshed the token: the first resent with that token and got its
\* response, the other used up its own budget and got its own 401
C18_Witness ==
  \E p \in Callers : \E q \in Callers \ {p} :
    /\ IsSend(p) /\ IsSend(q)
    /\ pc[p] = "returned" /\ Sleeps(p) = 1 /\ RefreshCalls(p) = 0 /\ NetCalls(p) = 2
    /\ pc[q] = "thrown" /\ result[q].status = 401
    /\ RefreshCalls(q) = 1 /\ Sleeps(q) = 0 /\ NetCalls(q) = 2
    /\ requestInit[p].auth.token = requestInit[q].auth.token
    /\ requestInit[p].auth.token # trace[p][SetMax({ i \in Positions(p, "nodeFetch") : i < SetMax(Positions(p, "nodeFetch")) })].n

\* ------------------------------------------------------------------ C19
\* a download of p is handed to nodeFetch
DownloadDispatches(p) == pc[p] = "idle" /\ pc'[p] = "downloading"

\* C19: the cached access token changes only in the step in which a refresh
\* call resolves, and then to the value that call returned; starting a send,
\* building and dispatching a request, any response, a rejected call, a failed
\* refresh, a wait and a download leave it as it is; every request that goes
\* out in oauth mode carries the value cached when it is built.
C19_TokenWrittenOnlyByRefresh ==
  [][ /\ (\A p \in Callers : ~RefreshCompletes(p)) => accessToken' = accessToken
      /\ \A p \in Callers :
           /\ RefreshCompletes(p) => accessToken' = Last(trace'[p]).n
           /\ (Dispatches(p) \/ DownloadDispatches(p)) =>
                /\ requestInit'[p].auth.cred = "oauth" =>
                     requestInit'[p].auth.token = accessToken
                /\ requestInit'[p].auth.cred # "oauth" =>
                     requestInit'[p].auth.token = 0 ]_vars

\* a third attempt, sent after a refresh and then a 429 wait, still carrying
\* the token that refresh stored
C19_Witness ==
  \E p \in Callers :
    /\ IsSend(p) /\ pc[p] = "inflight"
    /\ RefreshCalls(p) = 1 /\ Sleeps(p) = 1 /\ NetCalls(p) = 3
    /\ trace[p][Len(trace[p]) - 2].ev = "timeout"
    /\ accessToken > 0 /\ requestInit[p].auth.token = accessToken
    /\ \E k \in Positions(p, "refreshed") : trace[p][k].n = accessToken

\* ------------------------------------------------------------------ C20
\* the mode the precedence apiKey > token > oauth selects for credentials c
ModeByPrecedence(c) ==
  IF c.apiKey THEN "apiKey" ELSE IF c.token THEN "token" ELSE "oauth"

\* the one header that carries the credential of a mode
HeaderOfMode(mode) == IF mode = "apiKey" THEN "x-synthetic-key" ELSE "Authorization"

\* C20: whatever credentials are configured, exactly one mode is active, the
\* first present of apiKey, token, oauth; Authorization.type and
\* Authorization.asHeader agree on it; the header holds that mode's single
\* credential (x-synthetic-key for apiKey, else one Authorization: Bearer),
\* and every request a send puts on the wire carries exactly that header.
C20_OneAuthModeByPrecedence ==
  LET h == AsHeader(config, accessToken)
  IN /\ AuthType(config) \in {"apiKey", "token", "oauth"}
     /\ AuthType(config) = ModeByPrecedence(config)
     /\ config[AuthType(config)]
     /\ h.cred = AuthType(config)
     /\ h.header = HeaderOfMode(AuthType(config))
     /\ h.token # 0 => h.cred = "oauth"
     /\ \A p \in Callers : (IsSend(p) /\ pc[p] = "inflight") =>
          /\ requestInit[p].auth.cred = AuthType(config)
          /\ requestInit[p].auth.header = HeaderOfMode(AuthType(config))

\* all three credentials configured, and a request sent with the API key
C20_Witness ==
  \E p \in Callers :
    /\ config.apiKey /\ config.token /\ config.oauth
    /\ IsSend(p) /\ pc[p] = "inflight"
    /\ requestInit[p].auth.header = "x-synthetic-key"

\* ------------------------------------------------------------------ C21
\* a token value proper: not empty, no bearer prefix, no blank at either end
IsTokenValue(t) ==
  /\ t # << >> /\ ~IsBearerWord(t[1])
  /\ t[1] # " " /\ t[Len(t)] # " "

\* C21: for every token value t, configuring t, "Bearer t" or "bearer t"
\* gives the header Bearer t: the prefix is removed and t is left as it is.
C21_BearerPrefixNormalized ==
  (call.fn = "Authorization.from" /\ IsTokenValue(call.arg)) =>
    LET t == call.arg
    IN /\ call.ret = <<"Bearer", " ">> \o t
       /\ Len(t) + 2 <= MaxTokenLen =>
            /\ TokenHeader(<<"Bearer", " ">> \o t) = <<"Bearer", " ">> \o t
            /\ TokenHeader(<<"bearer", " ">> \o t) = <<"Bearer", " ">> \o t

\* ------------------------------------------------------------------ C22
\* the locator shapes: folder+service (version optional), serviceId only,
\* versionId only, proxy only; public is not part of an encoding
HasShape(l) ==
  /\ ~l.public
  /\ \/ /\ l.folder # << >> /\ l.service # << >>
        /\ l.serviceId = << >> /\ l.versionId = << >> /\ l.proxy = << >>
     \/ /\ l.serviceId # << >> /\ l = [NoLocator EXCEPT !.serviceId = l.serviceId]
     \/ /\ l.versionId # << >> /\ l = [NoLocator EXCEPT !.versionId = l.versionId]
     \/ /\ l.proxy # << >> /\ l = [NoLocator EXCEPT !.proxy = l.proxy]

\* C22: decoding the encoding of a locator gives the locator back, for each
\* shape and for the long and the short form.
C22_DecodeEncodeIdentity ==
  (call.fn = "Uri.encode" /\ HasShape(call.arg.uri)) =>
    Decode(call.ret) = call.arg.uri

\* ------------------------------------------------------------------ C23
\* names tried as folder, service, version and id values
NameValues == {<<"a">>, <<"b">>, <<"a", "b">>, <<"a", "services">>, <<"b", "folders">>}

Bracketed(v) == IF v = << >> THEN << >> ELSE <<"[">> \o v \o <<"]">>

\* "folder/service[version]" and "folders/folder/services/service[version]"
ShortForm(f, sv, v) == f \o <<"/">> \o sv \o Bracketed(v)
LongForm(f, sv, v) ==
  <<"folders", "/">> \o f \o <<"/", "services", "/">> \o sv \o Bracketed(v)

\* C23: decode maps "folder/service[version]" and its long form to {folder,
\* service, version} (no version without a bracket), "service/{id}" to
\* {serviceId} only and "version/{id}" to {versionId} only, for all values.
C23_DecodeMapsEachGrammar ==
  call.fn = "Uri.decode" =>
    /\ \A f \in NameValues, sv \in NameValues, v \in NameValues \cup {<< >>} :
         call.arg \in {ShortForm(f, sv, v), LongForm(f, sv, v)} =>
           call.ret = [NoLocator EXCEPT !.folder = f, !.service = sv, !.version = v]
    /\ \A id \in NameValues :
         /\ call.arg = <<"service", "/">> \o id =>
              call.ret = [NoLocator EXCEPT !.serviceId = id]
         /\ call.arg = <<"version", "/">> \o id =>
              call.ret = [NoLocator EXCEPT !.versionId = id]

\* ------------------------------------------------------------------ C24
\* a name: at least one piece, none of them a slash or a bracket
IsName(str) == str # << >> /\ \A k \in 1..Len(str) : str[k] \notin {"/", "[", "]"}

\* service, or service[version]
IsNameWithVersion(str) ==
  \/ IsName(str)
  \/ \E j \in 2..(Len(str) - 1) :
       /\ str[j] = "[" /\ str[Len(str)] = "]"
       /\ IsName(SubSeq(str, 1, j - 1))
       /\ j + 1 <= Len(str) - 1 => IsName(SubSeq(str, j + 1, Len(str) - 1))

\* folder/service[version], which service/{id} and version/{id} are cases of
IsShortForm(str) ==
  \E i \in 2..(Len(str) - 1) :
    /\ str[i] = "/"
    /\ IsName(SubSeq(str, 1, i - 1))
    /\ IsNameWithVersion(SubSeq(str, i + 1, Len(str)))

\* folders/folder/services/service[version]
IsLongForm(str) ==
  /\ Len(str) >= 7 /\ str[1] = "folders" /\ str[2] = "/"
  /\ \E i \in 4..(Len(str) - 3) :
       /\ str[i] = "/" /\ str[i + 1] = "services" /\ str[i + 2] = "/"
       /\ IsName(SubSeq(str, 3, i - 1))
       /\ IsNameWithVersion(SubSeq(str, i + 3, Len(str)))

\* C24: a string that is in none of the accepted grammars decodes to the
\* empty locator (strings the sanitiser would change are left aside).
C24_UnmatchedDecodesToEmpty ==
  (/\ call.fn = "Uri.decode"
   /\ SanitizeUri(call.arg) = call.arg
   /\ ~IsShortForm(call.arg) /\ ~IsLongForm(call.arg))
  => call.ret = NoLocator

\* ------------------------------------------------------------------ C25
\* the addressing segment the priority of the claim selects for a locator
AddressingSegment(l) ==
  IF l.folder # << >> /\ l.service # << >>
  THEN <<"/", "folders", "/">> \o l.folder \o <<"/", "services", "/">> \o l.service
  ELSE IF l.versionId # << >> THEN <<"/", "version", "/">> \o l.versionId
  ELSE IF l.proxy # << >>
  THEN <<"/", "proxy", "/">> \o (IF l.proxy[1] = "/" THEN Tail(l.proxy) ELSE l.proxy)
  ELSE << >>

C26_ServiceIdOutranksVersionId ==
  (/\ call.fn = "Uri.from" /\ call.ret.ok
   /\ call.arg.uri.serviceId # << >>
   /\ ~(call.arg.uri.folder # << >> /\ call.arg.uri.service # << >>))
  => call.ret.scheme \notin {"version", "proxy"}

\* ------------------------------------------------------------------ C27
\* C27: when no URL can be built, Uri.from and Uri.partial throw a
\* SparkSdkError whose cause is the input they were given.
C27_UnbuildableInputIsSdkError ==
  (call.fn \in {"Uri.from", "Uri.partial"} /\ ~call.ret.ok) =>
    /\ call.ret.error.name = "SparkSdkError"
    /\ call.ret.error.cause = "input"

\* ------------------------------------------------------------------ C28
\* the MD5 digest of data
Md5(data) == [algorithm |-> "MD5", data |-> data]

\* C28: a multipart request with a file part carries a content-md5 header
\* whose value is the MD5 digest of the buffered bytes of that file part.
C28_ContentMd5IsMd5OfFilePart ==
  \A p \in Callers : requestInit[p].md5 =>
    \E k \in 1..Len(options[p].multiparts) :
      /\ options[p].multiparts[k] = "file"
      /\ ContentMd5(options[p].multiparts) = Md5(FileBuffer(k))

\* ------------------------------------------------------------------ C29
\* C29: in every attempt of a send the before-send interceptors run in
\* registration order, each on the request the previous one produced; the
\* one network call that follows carries the rewritten request; the
\* after-receive interceptors then run in registration order on the response;
\* and the send returns, throws or resends according to the response the
\* last of them produced.
C29_InterceptorsWrapEachAttempt ==
  \A p \in Callers : IsSend(p) =>
    LET is == config.interceptors
        n == Len(is)
        h == requestInit[p].headers
    IN /\ requestInit[p] # NoRequestInit =>
            /\ Len(h) = requestInit[p].attempt * n
            /\ \A j \in 1..Len(h) : h[j] = is[((j - 1) % n) + 1]
       /\ \A k \in Positions(p, "nodeFetch") : k > 1 /\ trace[p][k - 1].ev = "_fetch"
       /\ \A k \in Positions(p, "received") :
            /\ trace[p][k - 1].ev = "nodeFetch"
            /\ trace[p][k + 1].ev = "response"
            /\ trace[p][k + 1].n =
                 (IF (\E j \in 1..n : is[j] = "i2") /\ trace[p][k].n = 418 THEN 200
                  ELSE trace[p][k].n)
       /\ httpResponse[p] # NoResponse => httpResponse[p].seen = is
       /\ \A k \in Positions(p, "response") :
            /\ trace[p][k].n < 400 <=> FollowedBy(p, k, "return")
            /\ FollowedBy(p, k, "throw") => trace[p][k + 1].n = trace[p][k].n
            /\ FollowedBy(p, k, "refreshToken") => trace[p][k].n = 401
            /\ FollowedBy(p, k, "setTimeout") => trace[p][k].n = 429
       /\ pc[p] = "returned" =>
            /\ result[p].response = httpResponse[p]
            /\ result[p].status = httpResponse[p].status

\* a resend whose 418 response the last interceptor turned into a 200: the
\* send returns it
C29_Witness ==
  \E p \in Callers :
    /\ IsSend(p) /\ pc[p] = "returned" /\ result[p].status = 200
    /\ config.interceptors = <<"i1", "i2">>
    /\ requestInit[p].attempt >= 2
    /\ requestInit[p].headers = <<"i1", "i2", "i1", "i2">>
    /\ trace[p][Len(trace[p]) - 2] = Event("received", 418)

\* ------------------------------------------------------------------ C30
\* C30: for retries >= 1 the delay getRetryTimeout gives, in milliseconds for
\* a base interval in seconds, lies between 2^(retries-1) * base * 0.5 and
\* 2^(retries-1) * base * 1.5 whatever the jitter, and the smallest delay
\* doubles from one retry to the next.
C30_BackoffWithinJitterBand ==
  (call.fn = "getRetryTimeout" /\ call.arg.retries >= 1) =>
    LET retries == call.arg.retries
        base == call.arg.baseInterval
    IN /\ 2 * call.ret >= Pow2(retries - 1) * base * 1000
       /\ 2 * call.ret <= Pow2(retries - 1) * base * 3000
       /\ GetRetryTimeout(retries + 1, base, 0) = 2 * GetRetryTimeout(retries, base, 0)
       /\ GetRetryTimeout(retries, base, 0) * 2 = Pow2(retries - 1) * base * 1000

\* the fourth retry with the largest jitter and a base interval of 3 s
C30_Witness ==
  /\ call.fn = "getRetryTimeout"
  /\ call.arg = [retries |-> 4, baseInterval |-> 3, r |-> 999]
  /\ call.ret = 35976

\* ------------------------------------------------------------------ C31
\* C31: the cancellation token given to _fetch is the signal of the network
\* call of every attempt, and the one given to _download is the signal of its
\* call; aborting it changes nothing of a pending sleep, which ends as it
\* would have and is followed by the resend; a network call carrying the
\* aborted signal can only fail, and that failure ends the send without
\* another call.
C31_CancellationAtNetworkCall ==
  [][ \A p \in Callers :
        /\ pc[p] # "idle" => options'[p].cancellationToken = options[p].cancellationToken
        /\ Dispatches(p) => requestInit'[p].signal = options[p].cancellationToken
        /\ DownloadDispatches(p) => requestInit'[p].signal
        /\ (cancelled' /\ ~cancelled) => pc' = pc /\ wait' = wait /\ options' = options
        /\ (pc[p] = "sleeping" /\ pc'[p] # "sleeping") =>
             /\ pc'[p] = "_fetch"
             /\ Last(trace'[p]) = Event("timeout", wait[p])
        /\ (cancelled /\ requestInit[p].signal /\ pc[p] \in {"inflight", "downloading"}
              /\ pc'[p] # pc[p]) =>
             /\ pc'[p] = "thrown"
             /\ result'[p].kind = "error"
             /\ NetCalls(p)' = NetCalls(p) ]_vars

\* a token aborted during the 429 sleep: the sleep ran to its end, the resend
\* was dispatched and failed, and the send threw after those two calls
C31_Witness ==
  \E p \in Callers :
    /\ IsSend(p) /\ pc[p] = "thrown" /\ result[p].name = "AbortError"
    /\ NetCalls(p) = 2 /\ Sleeps(p) = 1
    /\ \E k \in Positions(p, "abort") :
         /\ trace[p][k - 1].ev = "setTimeout"
         /\ trace[p][k + 1] = Event("timeout", trace[p][k - 1].n)

\* ------------------------------------------------------------------ C32
\* C32: every request a send built, first attempt or resend, carries the
\* User-Agent, x-spark-ua, x-request-id and x-tenant-name values of the SDK
\* and the authorization header of the active mode, whatever headers the
\* caller or the configuration supplied under those names; the x-request-id
\* is the one generated for its call, so two calls never share it.
C32_SdkHeadersOnEveryAttempt ==
  \A p \in Callers : requestInit[p] # NoRequestInit =>
    LET h == requestInit[p].headerMap
        mode == AsHeader(config, requestInit[p].auth.token)
    IN /\ h["User-Agent"] = <<"userAgentHeader">>
       /\ h["x-spark-ua"] = <<"sdkUaHeader">>
       /\ h["x-tenant-name"] = <<"tenant">>
       /\ h["x-request-id"] = <<"uuid", GetUuid(p)>>
       /\ mode.cred = AuthType(config)
       /\ h[mode.header] = <<mode.cred, requestInit[p].auth.token>>
       /\ \A q \in Callers \ {p} : requestInit[q] # NoRequestInit =>
            requestInit[q].headerMap["x-request-id"] # h["x-request-id"]

\* a resend in bearer-token mode of a send whose caller supplied all the
\* names, while the other send of the client is in flight too
C32_Witness ==
  \E p \in Callers : \E q \in Callers \ {p} :
    /\ pc[p] = "inflight" /\ requestInit[p].attempt = 2
    /\ AuthType(config) = "token"
    /\ requestInit[p].headerMap["x-synthetic-key"] = <<"supplied">>
    /\ pc[q] = "inflight"

\* ---------------------------------------------------------- ImpEx.export
\* the resource call that the workflow and the polls make their sends on
Exporter == "c1"

MaxFiles == 2

\* file.file of an entry of outputs.files: a URL, or nothing
FileUrls == {"", "f1"}

\* outputs.files of the status that completed the job
ExportFiles == UNION { [1..n -> FileUrls] : n \in 0..MaxFiles }

\* what the status reads of a job answer: not started yet, or completed
JobPayloads ==
  { d \in Payloads : (d.progress = 0 /\ d.status = "pending") \/ d.status = "completed" }

\* for (const file of exported.outputs.files) { if (!file.file) continue; ...
\* the first entry from i on that has a file URL, or one past the last
RECURSIVE NextFile(_, _)
NextFile(files, i) ==
  IF i > Len(files) THEN i
  ELSE IF files[i] = "" THEN NextFile(files, i + 1)
  ELSE i

\* Export.download, the loop from entry i on up to its next await or return
DownloadFrom(j, i) ==
  LET n == NextFile(j.files, i)
  IN IF n > Len(j.files)
     THEN [j EXCEPT !.phase = "returned", !.next = n]
     ELSE [j EXCEPT !.phase = "download", !.next = n]

\* the workflow throws
ExportThrow(j, name) == [j EXCEPT !.phase = "thrown", !.error = name]

\* variant: a job without files goes on to the download
AfterStatusNoCheck(j, outputs, files) ==
  IF ~outputs
  THEN ExportThrow(j, "TypeError")
  ELSE DownloadFrom([j EXCEPT !.files = files], 1)

\* ImpEx.export once getStatus returned: a job that lists zero files is an
\* error, whatever else goes to Export.download, which reads outputs.files
\* (a TypeError when the status carries no outputs)
AfterStatus(j, outputs, files) ==
  IF ~outputs
  THEN ExportThrow(j, "TypeError")
  ELSE IF Len(files) = 0
  THEN ExportThrow(j, "SparkError")
  ELSE DownloadFrom([j EXCEPT !.files = files], 1)

\* the send the workflow is at
OpOf(j) ==
  CASE j.phase = "initiate" -> "initiate"
    [] j.phase = "download" -> "download"
    [] OTHER                -> "status"

\* the send of p settled and was awaited: it is added to the sends made
Settled(j, p) ==
  [j EXCEPT !.sends = Append(@, [op |-> OpOf(j), calls |-> NetCalls(p),
                                 ok |-> pc[p] = "returned"])]

\* the next this.request of the resource starts from nothing
Settle(p) ==
  /\ pc' = [pc EXCEPT ![p] = "idle"]
  /\ options' = [options EXCEPT ![p] = NoOptions]
  /\ requestInit' = [requestInit EXCEPT ![p] = NoRequestInit]
  /\ httpResponse' = [httpResponse EXCEPT ![p] = NoResponse]
  /\ wait' = [wait EXCEPT ![p] = 0]
  /\ result' = [result EXCEPT ![p] = NoResult]
  /\ trace' = [trace EXCEPT ![p] = << >>]
  /\ UNCHANGED <<cancelled, call, config, accessToken, issued, active>>

\* ImpEx.export(params) up to the request of Export.initiate: without
\* folders, services or versionIds initiate throws before any request
ExportCall ==
  /\ job.phase = "idle" /\ poll.state = "idle" /\ pc[Exporter] = "idle"
  /\ \E inputs \in BOOLEAN :
       job' = IF inputs THEN [job EXCEPT !.phase = "initiate"]
              ELSE ExportThrow(job, "SparkError")
  /\ UNCHANGED <<cancelled, call, poll, config, accessToken, issued, active, pc, options,
                 requestInit, httpResponse, wait, result, trace>>

\* Export.initiate: this.request(url.value, { method: 'POST', body })
InitiateRequest ==
  /\ job.phase = "initiate" /\ pc[Exporter] = "idle"
  /\ Request(Exporter)
  /\ options'[Exporter].method = "POST"
  /\ options'[Exporter].contentType = "application/json"
  /\ ~options'[Exporter].file
  /\ options'[Exporter].multiparts = NoMultiparts

\* Export.initiate, .then: a response with data.id is the job, one without
\* is a 422; then ImpEx.export calls getStatus(response.data.id, ...)
InitiateReturn ==
  /\ job.phase = "initiate" /\ pc[Exporter] = "returned"
  /\ \E id \in BOOLEAN, m \in {Undefined} \cup 0..MaxPollRetries :
       IF id
       THEN /\ job' = [Settled(job, Exporter) EXCEPT !.phase = "status", !.id = TRUE]
            /\ poll' = PollBegin("export", IF m = Undefined THEN config.maxRetries ELSE m)
       ELSE /\ job' = ExportThrow(Settled(job, Exporter), When(422))
            /\ poll' = poll
  /\ Settle(Exporter)

\* Export.initiate: the request rejects, and so do initiate and export
InitiateThrow ==
  /\ job.phase = "initiate" /\ pc[Exporter] = "thrown"
  /\ job' = ExportThrow(Settled(job, Exporter), result[Exporter].name)
  /\ poll' = poll
  /\ Settle(Exporter)

\* getStatus called on a resource, outside of ImpEx.export
GetStatus == PollStart /\ job.phase = "idle" /\ pc[Exporter] = "idle"

\* getStatus: await this.request(statusUrl ?? url.value), a GET
StatusRequest ==
  /\ poll.state = "request" /\ pc[Exporter] = "idle"
  /\ GetCategories(Exporter)

\* the status read resolves: getStatus runs on to its next await, return or
\* throw, and when it returns inside ImpEx.export the workflow goes on
StatusReturn ==
  /\ poll.state = "request" /\ pc[Exporter] = "returned"
  /\ \E d \in JobPayloads, r \in Jitters, outputs \in BOOLEAN, files \in ExportFiles :
       LET q == PollOnResponse(poll, d, r)
       IN /\ poll' = q
          /\ job' = IF job.phase = "status" /\ q.state = "Completed"
                    THEN AfterStatus(Settled(job, Exporter), outputs, files)
                    ELSE Settled(job, Exporter)
  /\ Settle(Exporter)

\* the status read rejects: getStatus throws what the read threw
StatusThrow ==
  /\ poll.state = "request" /\ pc[Exporter] = "thrown"
  /\ poll' = PollOnError(poll, result[Exporter].name)
  /\ job' = Settled(job, Exporter)
  /\ Settle(Exporter)

\* Export.download: await this.request(file.file), a GET
FileRequest ==
  /\ job.phase = "download" /\ pc[Exporter] = "idle"
  /\ GetCategories(Exporter)

\* the download resolves: downloads.push, then on with the loop
FileReturn ==
  /\ job.phase = "download" /\ pc[Exporter] = "returned"
  /\ job' = DownloadFrom([Settled(job, Exporter) EXCEPT !.downloads = Append(@, job.next)],
                         job.next + 1)
  /\ poll' = poll
  /\ Settle(Exporter)

\* variant: a download that fails fails the export
FileThrowFails ==
  /\ job.phase = "download" /\ pc[Exporter] = "thrown"
  /\ job' = ExportThrow(Settled(job, Exporter), result[Exporter].name)
  /\ poll' = poll
  /\ Settle(Exporter)

\* the download rejects: catch (cause) logs a warning, then on with the loop
FileThrow ==
  /\ job.phase = "download" /\ pc[Exporter] = "thrown"
  /\ job' = DownloadFrom(Settled(job, Exporter), job.next + 1)
  /\ poll' = poll
  /\ Settle(Exporter)

\* a client with an API key or OAuth credentials and no interceptors
JobInit ==
  /\ InitWith({Exporter})
  /\ ~config.token /\ (config.apiKey # config.oauth)
  /\ config.interceptors = << >>
  /\ config.maxRetries <= 1

JobNext ==
  \/ ExportCall
  \/ InitiateRequest
  \/ InitiateReturn
  \/ InitiateThrow
  \/ GetStatus
  \/ StatusRequest
  \/ StatusReturn
  \/ StatusThrow
  \/ PollWake
  \/ FileRequest
  \/ FileReturn
  \/ FileThrow
  \/ Fetch(Exporter)
  \/ Respond(Exporter) /\ httpResponse'[Exporter].status \in ConcStatuses
  \/ Reject(Exporter)
  \/ RefreshResolve(Exporter)
  \/ RefreshReject(Exporter)
  \/ Timeout(Exporter)

JobSpec == JobInit /\ [][JobNext]_vars

\* the sends made so far, the one under way included
SendsSoFar ==
  IF pc[Exporter] = "idle" THEN job.sends
  ELSE Append(job.sends, [op |-> OpOf(job), calls |-> NetCalls(Exporter), ok |-> FALSE])

\* the operations of the network calls made so far, in order
RECURSIVE NetworkOps(_)
NetworkOps(sends) ==
  IF sends = << >> THEN << >>
  ELSE [k \in 1..Head(sends).calls |-> Head(sends).op] \o NetworkOps(Tail(sends))

\* where an operation of the workflow stands in its order
OpRank(op) ==
  CASE op = "initiate" -> 1
    [] op = "status"   -> 2
    [] OTHER           -> 3

\* export is over and threw without having come to the downloads
ThrewBeforeDownload ==
  \/ job.phase = "thrown" /\ job.files = << >>
  \/ job.phase = "status" /\ poll.state \in {"TimedOut", "Aborted"}

StatusReads == SelectSeq(SendsSoFar, LAMBDA e : e.op = "status")

RECURSIVE SumCalls(_)
SumCalls(sends) ==
  IF sends = << >> THEN 0 ELSE Head(sends).calls + SumCalls(Tail(sends))

\* C34: every status read of a poll is a send of at most
\* config.maxRetries + 1 network calls, so R status reads make at most
\* R * (config.maxRetries + 1) network calls; the poller's retries counter
\* counts reads that came back, never the resends made inside a read
C34_NestedRetriesBounded ==
  /\ [](/\ \A k \in 1..Len(StatusReads) :
             StatusReads[k].calls <= config.maxRetries + 1
        /\ SumCalls(StatusReads) <= Len(StatusReads) * (config.maxRetries + 1)
        /\ poll.retries <= Len(SelectSeq(job.sends, LAMBDA e : e.op = "status" /\ e.ok)))
  /\ [][pc'[Exporter] # "idle" => poll' = poll]_vars

\* a poll whose two status reads were both resent once, with the poller's
\* counter at one
C34_Witness ==
  /\ Len(StatusReads) = 2
  /\ SumCalls(StatusReads) = 4
  /\ poll.retries = 1
  /\ config.maxRetries = 1

\* the status read under way has thrown and getStatus takes it up
StatusReadFails ==
  poll.state = "request" /\ pc[Exporter] = "thrown" /\ pc'[Exporter] = "idle"

\* C35: a status read that throws ends the poll at once with the error the
\* read threw: no further read, no sleep, no timeout error, and the retries
\* counter is left as it was
C35_ReadErrorAbortsPoll ==
  /\ [][StatusReadFails =>
          /\ poll'.state = "Aborted"
          /\ poll'.outcome.kind = "error"
          /\ poll'.outcome.name = result[Exporter].name
          /\ poll'.outcome.name # "SparkSdkError"
          /\ poll'.retries = poll.retries
          /\ poll'.sleeps = poll.sleeps
          /\ poll'.reads = poll.reads]_vars
  /\ [][poll.state = "Aborted" => poll' = poll /\ pc' = pc /\ trace' = trace]_vars
  /\ [](poll.state = "Aborted" => pc[Exporter] = "idle")

\* a poll aborted by a 429 that outlasted the executor's resends, after a
\* first read that came back
C35_Witness ==
  /\ poll.state = "Aborted"
  /\ poll.outcome.name = "RateLimitError"
  /\ poll.reads = 1
  /\ Last(job.sends).calls = 2
  /\ ~Last(job.sends).ok

\* p's _fetch is called again for a resend, no interceptor in between
Resending(p) ==
  /\ pc[p] = "_fetch"
  /\ RetriesOf(options[p]) > 0
  /\ requestInit[p] # NoRequestInit
  /\ ~HasInterceptors(config)

\* C36: the request built for a resend is dispatched and carries the method
\* and the body of the attempt before it, whatever the body variant
C36_ResendCarriesSameRequest ==
  [][\A p \in Callers :
       (Resending(p) /\ pc'[p] # pc[p]) =>
          /\ pc'[p] = "inflight"
          /\ requestInit'[p].method = requestInit[p].method
          /\ requestInit'[p].body = requestInit[p].body
          /\ requestInit'[p].contentType = requestInit[p].contentType]_vars

\* the refresh p awaited has failed
RefreshFailed(p) == Positions(p, "refreshFailed") # {}

FileSends == SelectSeq(SendsSoFar, LAMBDA e : e.op = "download")

\* the entries of the job's files the loop has come to that have a file URL
Requested ==
  { i \in 1..Len(job.files) :
      /\ job.files[i] # ""
      /\ i < job.next \/ (i = job.next /\ pc[Exporter] # "idle") }

\* the download under way has thrown and the loop takes it up
FileDownloadFails ==
  job.phase = "download" /\ pc[Exporter] = "thrown" /\ pc'[Exporter] = "idle"

\* C38: Export.download requests every listed file at most once and in the
\* listed order, returns the downloads that came back in that order, and a
\* download that fails is left out without failing the export or stopping
\* the loop
C38_DownloadsAreSubsequence ==
  /\ [](job.phase \in {"download", "returned"} =>
          /\ Len(FileSends) = Cardinality(Requested)
          /\ \A a, b \in 1..Len(job.downloads) :
               a < b => job.downloads[a] < job.downloads[b]
          /\ \A a \in 1..Len(job.downloads) : job.downloads[a] \in Requested
          /\ Len(job.downloads) = Len(SelectSeq(job.sends, LAMBDA e : e.op = "download" /\ e.ok))
          /\ job.phase = "returned" => job.next = Len(job.files) + 1)
  /\ [][FileDownloadFails =>
          /\ job'.phase \in {"download", "returned"}
          /\ job'.downloads = job.downloads
          /\ job'.next > job.next
          /\ job'.error = "none"]_vars

\* an export of two files that returned an empty list: both downloads failed
C38_Witness ==
  /\ job.phase = "returned"
  /\ Len(job.files) = 2
  /\ Len(FileSends) = 2
  /\ job.downloads = << >>

\* how many times x occurs in sq
Occurrences(sq, x) == Cardinality({ k \in 1..Len(sq) : sq[k] = x })

\* C39: the before-send interceptors of a resend work on the options the
\* chain of the attempt before left, so after the k-th run of the chain each
\* interceptor has been applied k times to the options of the send; the
\* after-receive interceptors are applied once each to every response
C39_BeforeHooksAccumulate ==
  \A p \in Callers : (IsSend(p) /\ HasInterceptors(config)) =>
    LET is == config.interceptors
        k == Len(FetchEntries(p))
    IN /\ \A j \in 1..Len(is) : Occurrences(options[p].headers, is[j]) = k
       /\ requestInit[p] # NoRequestInit =>
            \A j \in 1..Len(is) :
               Occurrences(requestInit[p].headers, is[j]) = requestInit[p].attempt
       /\ httpResponse[p] # NoResponse =>
            /\ \A j \in 1..Len(is) : Occurrences(httpResponse[p].seen, is[j]) = 1
            /\ Len(httpResponse[p].seen) = Len(is)
       /\ Cardinality(Positions(p, "response")) = Cardinality(Positions(p, "received"))

\* the third attempt of a send with interceptors has got its response
C39_Witness ==
  /\ IsSend("c1")
  /\ HasInterceptors(config)
  /\ Len(FetchEntries("c1")) = 3
  /\ httpResponse["c1"].attempt = 3
  /\ Occurrences(options["c1"].headers, "i1") = 3
  /\ httpResponse["c1"].seen = config.interceptors

\* C40: the sleep before the k-th resend or re-read is the backoff of k, so
\* no sleep of the executor's 429 path without x-retry-after (base 1 s) or
\* of a poller (base retryInterval) is shorter than half the base, and the
\* first one is not longer than one and a half times the base (in ms)
C40_FirstSleepWithinBaseBand ==
  /\ \A p \in Callers :
       (pc[p] = "sleeping" /\ httpResponse[p].retryAfter = NoHeader) =>
          /\ wait[p] >= 500
          /\ RetriesOf(options[p]) = 0 => wait[p] <= 1500
  /\ poll.state = "sleeping" =>
          /\ poll.wait >= 500 * poll.retryInterval
          /\ poll.sleeps = 1 => poll.wait <= 1500 * poll.retryInterval

====
